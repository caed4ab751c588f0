-------------------------- MODULE ReadQueue_proofs --------------------------
(***************************************************************************)
(* What holds of ReadQueue for any files, people, limits and bounds; of    *)
(* what the reader makes of a file (FileReading), for any layout of its    *)
(* pages, any answers and any limits; and of the pages a receipt is        *)
(* checked on (CaseReview), for any receipts and bounds.                   *)
(***************************************************************************)
EXTENDS ReadQueue, FileReading, CaseReview, Counting, FiniteSetTheorems, SequenceTheorems, NaturalsInduction, WellFoundedInduction, TLAPS

-----------------------------------------------------------------------------
(* Types.                                                                  *)

\* A job stays one when its state and another field of it are written.
LEMMA JobType ==
  ASSUME NEW j \in Job, NEW s \in JobState, NEW b \in BOOLEAN, NEW n \in Nat,
         NEW k \in {"none", "unavailable", "error"}
  PROVE  /\ [j EXCEPT !.state = s] \in Job
         /\ [j EXCEPT !.due = b] \in Job
         /\ [j EXCEPT !.state = s, !.attempts = n] \in Job
         /\ [j EXCEPT !.state = s, !.kind = k] \in Job
         /\ [j EXCEPT !.state = s, !.due = b, !.kind = k] \in Job
         /\ [j EXCEPT !.state = s, !.due = b, !.attempts = n] \in Job
BY DEF Job

LEMMA NewJobType == NoJob \in Job /\ NewJob \in Job
BY DEF Job, NoJob, NewJob, JobState

\* What recover makes of a job is a job.
LEMMA RecoveredType ==
  ASSUME TypeOK, NEW f \in File
  PROVE  Recovered(f) \in Job
<1>1. CASE job[f].state = "reading"
  <2> DEFINE n == IF job[f].attempts = 0 THEN 0 ELSE job[f].attempts - 1
  <2>1. job[f] \in Job /\ n \in Nat /\ "queued" \in JobState
    BY DEF TypeOK, Job, JobState
  <2>2. Recovered(f) = [job[f] EXCEPT !.state = "queued", !.due = TRUE, !.attempts = n]
    BY <1>1, <2>1 DEF Recovered, Job
  <2>3. QED
    <3>1. [job[f] EXCEPT !.state = "queued", !.due = TRUE, !.attempts = n] \in Job
      BY <2>1, JobType
    <3>2. QED
      BY <2>2, <3>1
<1>2. CASE job[f].state # "reading"
  BY <1>2 DEF TypeOK, Recovered
<1>3. QED
  BY <1>1, <1>2

\* The ends of a read.
LEMMA RunEndsType ==
  ASSUME TypeOK, NEW f \in File, RunEnds(f)
  PROVE  /\ run' \in [File -> {"idle", "asked", "landing"}]
         /\ todo' \in [File -> Nat] /\ own' \in [File -> Nat]
         /\ born' \in [File -> Nat] /\ last' \in Nat
         /\ by' \in [File -> {"nobody", "reader", "person"}]
         /\ sibs' \in [File -> Nat]
         /\ process' \in {"up", "stopping", "down"}
         /\ tick' \in BOOLEAN /\ soon' \in BOOLEAN /\ timer' \in BOOLEAN
         /\ restarts' \in Nat
BY DEF RunEnds, TypeOK, Wake

LEMMA ReleaseType ==
  ASSUME TypeOK, NEW f \in File, Release(f)
  PROVE  /\ row' \in [File -> {"absent", "reading", "out", "gone"}]
         /\ orphans' \in [File -> Nat]
         /\ parsed' \in [File -> BOOLEAN]
BY DEF Release, TypeOK

LEMMA SettleType ==
  ASSUME TypeOK, NEW f \in File, NEW k \in {"unavailable", "error"},
         Retry(f, k) \/ Fail(f, k) \/ Gone(f)
  PROVE  /\ job' \in [File -> Job]
         /\ row' \in [File -> {"absent", "reading", "out", "gone"}]
         /\ orphans' \in [File -> Nat]
         /\ parsed' \in [File -> BOOLEAN]
<1>1. CASE Retry(f, k)
  <2>1. [job[f] EXCEPT !.state = "queued", !.due = FALSE, !.kind = k] \in Job
    BY JobType DEF TypeOK, JobState
  <2>2. QED
    BY <1>1, <2>1 DEF Retry, TypeOK
<1>2. CASE Fail(f, k)
  <2>1. [job[f] EXCEPT !.state = "failed", !.kind = k] \in Job
    BY JobType DEF TypeOK, JobState
  <2>2. QED
    BY <1>2, <2>1, ReleaseType DEF Fail, TypeOK
<1>3. CASE Gone(f)
  BY <1>3 DEF Gone, TypeOK
<1>4. QED
  BY <1>1, <1>2, <1>3

LEMMA DownType ==
  ASSUME TypeOK, Down
  PROVE  /\ process' \in {"up", "stopping", "down"}
         /\ tick' \in BOOLEAN /\ soon' \in BOOLEAN /\ timer' \in BOOLEAN
         /\ restarts' \in Nat
         /\ run' \in [File -> {"idle", "asked", "landing"}]
         /\ todo' \in [File -> Nat] /\ own' \in [File -> Nat]
         /\ orphans' \in [File -> Nat]
<1>1. \A f \in File : orphans[f] + own[f] \in Nat
  BY DEF TypeOK
<1>2. orphans' \in [File -> Nat]
  BY <1>1 DEF Down
<1>3. restarts' \in Nat
  BY DEF Down, TypeOK
<1>4. todo' \in [File -> Nat] /\ own' \in [File -> Nat]
  BY DEF Down
<1>5. process' \in {"up", "stopping", "down"} /\ run' \in [File -> {"idle", "asked", "landing"}]
  BY DEF Down
<1>6. tick' \in BOOLEAN /\ soon' \in BOOLEAN /\ timer' \in BOOLEAN
  BY DEF Down
<1>7. QED
  BY <1>2, <1>3, <1>4, <1>5, <1>6

\* No step leaves a variable outside its type.
LEMMA TypeStep ==
  ASSUME TypeOK, [Next]_vars
  PROVE  TypeOK'
<1> USE DEF rowVars, runVars, wakeVars
<1>1. ASSUME WakeFires \/ Stop PROVE TypeOK'
  BY <1>1 DEF TypeOK, WakeFires, Stop
<1>2. ASSUME NEW f \in File, Run(f) PROVE TypeOK'
  <2>1. job[f].attempts + 1 \in Nat
    BY DEF TypeOK, Job
  <2>2. [job[f] EXCEPT !.state = "reading", !.attempts = job[f].attempts + 1] \in Job
    BY <2>1, JobType DEF TypeOK, JobState
  <2>3. job' = [job EXCEPT ![f] = [job[f] EXCEPT !.state = "reading", !.attempts = job[f].attempts + 1]]
    BY <1>2 DEF Run
  <2>4. QED
    BY <1>2, <2>2, <2>3 DEF TypeOK, Run
<1>3. ASSUME TickEnds PROVE TypeOK'
  <2>1. PICK late \in SUBSET File :
          /\ job' = [g \in File |-> IF g \in late THEN [job[g] EXCEPT !.due = TRUE] ELSE job[g]]
          /\ timer' = \E g \in File \ late : job[g].state = "queued" /\ ~job[g].due
    BY <1>3 DEF TickEnds
  <2>2. ASSUME NEW g \in File PROVE [job[g] EXCEPT !.due = TRUE] \in Job
    <3>1. job[g] \in Job
      BY DEF TypeOK
    <3> QED BY ONLY <3>1 DEF Job
  <2>3. job' \in [File -> Job]
    BY <2>1, <2>2 DEF TypeOK
  <2>4. timer' \in BOOLEAN
    BY <2>1
  <2>5. QED
    BY <1>3, <2>3, <2>4 DEF TypeOK, TickEnds
<1>4. ASSUME NEW f \in File, BecomesDue(f) PROVE TypeOK'
  <2>1. job[f] \in Job
    BY DEF TypeOK
  <2>2. [job[f] EXCEPT !.due = TRUE] \in Job
    BY ONLY <2>1 DEF Job
  <2>3. job' = [job EXCEPT ![f] = [job[f] EXCEPT !.due = TRUE]]
    BY <1>4 DEF BecomesDue
  <2>4. job' \in [File -> Job]
    BY <2>2, <2>3 DEF TypeOK
  <2>5. QED
    BY <1>4, <2>4 DEF TypeOK, BecomesDue
<1>5. ASSUME NEW f \in File, ReadBusy(f) \/ ReadFails(f) PROVE TypeOK'
  BY <1>5, SettleType, RunEndsType DEF TypeOK, ReadBusy, ReadFails
<1>6. ASSUME NEW f \in File, ReadAnswers(f) PROVE TypeOK'
  <2>1. PICK n \in 0 .. Parts : todo' = [todo EXCEPT ![f] = n]
    BY <1>6 DEF ReadAnswers
  <2>2. n \in Nat
    BY ReadQueueAssumption
  <2>3. QED
    BY <1>6, <2>1, <2>2 DEF TypeOK, ReadAnswers, Land
<1>7. ASSUME NEW f \in File, FindSibling(f) PROVE TypeOK'
  BY <1>7 DEF TypeOK, FindSibling
<1>8. ASSUME NEW f \in File, ReadEnds(f) PROVE TypeOK'
  <2>1. job' \in [File -> Job]
    BY <1>8, JobType DEF TypeOK, ReadEnds, JobState
  <2>2. QED
    BY <1>8, <2>1, RunEndsType DEF TypeOK, ReadEnds, Stored, Exists
<1>9. ASSUME NEW f \in File, Store(f) PROVE TypeOK'
  BY <1>9, NewJobType DEF TypeOK, Store, Wake
<1>10. ASSUME NEW f \in File, HurryUp(f) PROVE TypeOK'
  <2>1. job[f] \in Job
    BY DEF TypeOK
  <2>2. [job[f] EXCEPT !.due = TRUE] \in Job
    BY ONLY <2>1 DEF Job
  <2>3. job' = [job EXCEPT ![f] = [job[f] EXCEPT !.due = TRUE]]
    BY <1>10 DEF HurryUp
  <2>4. job' \in [File -> Job]
    BY <2>2, <2>3 DEF TypeOK
  <2>5. QED
    BY <1>10, <2>4 DEF TypeOK, HurryUp, Wake
<1>11. ASSUME NEW f \in File, TryAgain(f) PROVE TypeOK'
  BY <1>11, NewJobType DEF TypeOK, TryAgain, Wake
<1>12. ASSUME NEW f \in File, Cancel(f) PROVE TypeOK'
  <2>1. [job[f] EXCEPT !.state = "cancelled"] \in Job
    BY JobType DEF TypeOK, JobState
  <2>2. job' \in [File -> Job]
    BY <1>12, <2>1 DEF TypeOK, Cancel
  <2>3. QED
    BY <1>12, <2>2, ReleaseType DEF TypeOK, Cancel
<1>13. ASSUME NEW f \in File, TypeIn(f) \/ Reread(f) PROVE TypeOK'
  BY <1>13 DEF TypeOK, TypeIn, Reread
<1>14. ASSUME NEW f \in File, RereadSibling(f) \/ DeleteSibling(f) PROVE TypeOK'
  <2>1. \A n \in Nat : n > 0 => n - 1 \in Nat
    OBVIOUS
  <2>2. CASE RereadSibling(f)
    BY <2>1, <2>2 DEF TypeOK, RereadSibling
  <2>3. CASE DeleteSibling(f)
    <3>1. sibs' \in [File -> Nat] /\ orphans' \in [File -> Nat] /\ own' \in [File -> Nat]
      BY <2>1, <2>3 DEF TypeOK, DeleteSibling
    <3>2. parsed' \in [File -> BOOLEAN]
      BY <2>3 DEF TypeOK, DeleteSibling, Exists
    <3>3. QED
      BY <2>3, <3>1, <3>2 DEF TypeOK, DeleteSibling
  <2>4. QED
    BY <1>14, <2>2, <2>3
<1>15. ASSUME NEW f \in File, DeleteRow(f) PROVE TypeOK'
  BY <1>15, NewJobType DEF TypeOK, DeleteRow
<1>16. ASSUME Exit PROVE TypeOK'
  BY <1>16, DownType DEF TypeOK, Exit
<1>17. ASSUME NEW f \in File, ExitStoring(f) PROVE TypeOK'
  BY <1>17, DownType DEF TypeOK, ExitStoring
<1>18. ASSUME Boot PROVE TypeOK'
  <2>1. job' \in [File -> Job]
    BY <1>18, RecoveredType, NewJobType DEF TypeOK, Boot
  <2>2. QED
    BY <1>18, <2>1 DEF TypeOK, Boot
<1>19. CASE UNCHANGED vars
  BY <1>19 DEF TypeOK, vars
<1>20. QED
  BY <1>1, <1>2, <1>3, <1>4, <1>5, <1>6, <1>7, <1>8, <1>9, <1>10, <1>11, <1>12, <1>13, <1>14,
     <1>15, <1>16, <1>17, <1>18, <1>19 DEF Next, Worker, RunStep, PersonStep

\* Every reachable state is well typed, for any files, people and limits.
THEOREM TypeCorrect == Spec => []TypeOK
<1>1. ASSUME Init PROVE TypeOK
  <2>1. tick \in BOOLEAN /\ soon \in BOOLEAN /\ timer \in BOOLEAN
    BY <1>1 DEF Init
  <2>2. parsed \in [File -> BOOLEAN] /\ job \in [File -> Job]
    BY <1>1, NewJobType DEF Init
  <2>3. /\ born \in [File -> Nat] /\ last \in Nat /\ restarts \in Nat
        /\ sibs \in [File -> Nat] /\ orphans \in [File -> Nat]
        /\ todo \in [File -> Nat] /\ own \in [File -> Nat]
    BY <1>1 DEF Init
  <2>4. /\ row \in [File -> {"absent", "reading", "out", "gone"}]
        /\ by \in [File -> {"nobody", "reader", "person"}]
        /\ run \in [File -> {"idle", "asked", "landing"}]
        /\ process \in {"up", "stopping", "down"}
    BY <1>1 DEF Init
  <2>5. QED
    BY <2>1, <2>2, <2>3, <2>4 DEF TypeOK
<1>2. TypeOK /\ [Next]_vars => TypeOK'
  BY TypeStep
<1>3. QED
  BY <1>1, <1>2, PTL DEF Spec

-----------------------------------------------------------------------------
(* Jobs, runs and rows.                                                    *)

\* What ties a job to its run in this process and to its row.
Held ==
  /\ process = "down" => ~tick /\ \A f \in File : run[f] = "idle"
  /\ process # "down" => \A f \in File : job[f].state = "reading" => run[f] # "idle"
  /\ \A f \in File : run[f] # "idle" => job[f].state \in {"reading", "none"}
  /\ \A f \in File : row[f] = "absent" => job[f].state = "none" /\ run[f] = "idle" /\ by[f] = "nobody"
  /\ \A f \in File : row[f] = "gone" => by[f] = "nobody"
  /\ NothingTypedIsReading

\* The end of a read leaves its own job settled and every other as it was.
LEMMA SettledHeld ==
  ASSUME TypeOK, Held, NEW f \in File, NEW k \in {"unavailable", "error"},
         Free, run[f] # "idle",
         \/ job[f].state = "reading" /\ (Retry(f, k) \/ Fail(f, k))
         \/ Gone(f),
         RunEnds(f)
  PROVE  Held'
<1>1. /\ job'[f].state \in {"queued", "failed", "none"}
      /\ \A g \in File : g # f => job'[g] = job[g]
  <2>1. CASE job[f].state = "reading" /\ Retry(f, k)
    BY <2>1 DEF Retry, TypeOK, Job
  <2>2. CASE job[f].state = "reading" /\ Fail(f, k)
    BY <2>2 DEF Fail, TypeOK, Job
  <2>3. CASE Gone(f)
    BY <2>3 DEF Gone, Held
  <2>4. QED
    BY <2>1, <2>2, <2>3
<1>2. \A g \in File : row'[g] = row[g] \/ (row[g] = "reading" /\ row'[g] = "out")
  BY DEF Retry, Fail, Gone, Release, TypeOK
<1>3. /\ run'[f] = "idle" /\ \A g \in File : g # f => run'[g] = run[g]
      /\ by' = by /\ process' = process
  BY DEF RunEnds, TypeOK
<1>4. process # "down" /\ row[f] # "absent"
  BY DEF Free, Held
<1>5. QED
  BY <1>1, <1>2, <1>3, <1>4 DEF Held, NothingTypedIsReading

LEMMA HeldStep ==
  ASSUME TypeOK, Held, [Next]_vars
  PROVE  Held'
<1> USE DEF rowVars, runVars, wakeVars
<1>1. ASSUME WakeFires \/ Stop PROVE Held'
  BY <1>1 DEF Held, WakeFires, Stop, Free, NothingTypedIsReading
<1>2. ASSUME NEW f \in File, Run(f) PROVE Held'
  <2>1. /\ job[f].state = "queued" /\ job'[f].state = "reading" /\ run'[f] = "asked"
        /\ \A g \in File : g # f => job'[g] = job[g] /\ run'[g] = run[g]
    BY <1>2 DEF Run, Picked, Eligible, TypeOK, Job
  <2>2. tick /\ UNCHANGED <<rowVars, wakeVars>>
    BY <1>2 DEF Run
  <2>3. QED
    BY <2>1, <2>2 DEF Held, NothingTypedIsReading
<1>3. ASSUME TickEnds PROVE Held'
  <2>1. \A g \in File : job'[g].state = job[g].state
    BY <1>3 DEF TickEnds, TypeOK, Job
  <2>2. UNCHANGED <<rowVars, runVars, process>> /\ tick' = FALSE
    BY <1>3 DEF TickEnds
  <2>3. QED
    BY <2>1, <2>2 DEF Held, NothingTypedIsReading
<1>4. ASSUME NEW f \in File, BecomesDue(f) \/ HurryUp(f) PROVE Held'
  <2>1. \A g \in File : job'[g].state = job[g].state
    BY <1>4 DEF BecomesDue, HurryUp, TypeOK, Job
  <2>2. UNCHANGED <<rowVars, runVars, process, tick>>
    BY <1>4 DEF BecomesDue, HurryUp
  <2>3. QED
    BY <2>1, <2>2 DEF Held, NothingTypedIsReading
<1>5. ASSUME NEW f \in File, ReadBusy(f) \/ ReadFails(f) PROVE Held'
  BY <1>5, SettledHeld DEF ReadBusy, ReadFails
<1>6. ASSUME NEW f \in File, ReadAnswers(f) PROVE Held'
  <2>1. /\ run[f] = "asked" /\ run'[f] = "landing" /\ process # "down"
        /\ \A g \in File : g # f => run'[g] = run[g]
        /\ \A g \in File : by'[g] = by[g] \/ (by'[g] = "reader" /\ row[g] = "reading")
        /\ UNCHANGED <<job, row, process, tick>>
    BY <1>6 DEF ReadAnswers, Land, Free, TypeOK
  <2>2. QED
    BY <2>1 DEF Held, NothingTypedIsReading
<1>7. ASSUME NEW f \in File, FindSibling(f) \/ RereadSibling(f) \/ DeleteSibling(f) PROVE Held'
  BY <1>7 DEF Held, FindSibling, RereadSibling, DeleteSibling, NothingTypedIsReading
<1>8. ASSUME NEW f \in File, ReadEnds(f) PROVE Held'
  <2>1. /\ run[f] # "idle" /\ process # "down"
        /\ run'[f] = "idle" /\ \A g \in File : g # f => run'[g] = run[g]
        /\ UNCHANGED <<by, process, tick>>
    BY <1>8 DEF ReadEnds, RunEnds, Free, TypeOK
  <2>2. /\ job'[f].state \in {"done", "none"}
        /\ \A g \in File : g # f => job'[g] = job[g]
    BY <1>8 DEF ReadEnds, TypeOK, Job, Held
  <2>3. \A g \in File : row'[g] = row[g] \/ (row[g] = "reading" /\ row'[g] = "out")
    BY <1>8 DEF ReadEnds, TypeOK
  <2>4. row[f] # "absent"
    BY <2>1 DEF Held
  <2>5. QED
    BY <2>1, <2>2, <2>3, <2>4 DEF Held, NothingTypedIsReading
<1>9. ASSUME NEW f \in File, Store(f) \/ TryAgain(f) PROVE Held'
  <2>1. /\ process # "down" /\ job'[f].state = "queued" /\ row'[f] = "reading" /\ by[f] = "nobody"
        /\ run[f] = "idle"
        /\ \A g \in File : g # f => job'[g] = job[g] /\ row'[g] = row[g]
        /\ UNCHANGED <<by, run, process, tick>>
    BY <1>9 DEF Store, TryAgain, Free, NewJob, TypeOK, Held
  <2>2. QED
    BY <2>1 DEF Held, NothingTypedIsReading
<1>10. ASSUME NEW f \in File, Cancel(f) PROVE Held'
  <2>1. /\ job[f].state = "queued" /\ job'[f].state = "cancelled"
        /\ \A g \in File : g # f => job'[g] = job[g]
        /\ \A g \in File : row'[g] = row[g] \/ (row[g] = "reading" /\ row'[g] = "out")
        /\ UNCHANGED <<by, run, process, tick>>
    BY <1>10 DEF Cancel, Release, TypeOK, Job
  <2>2. QED
    BY <2>1 DEF Held, NothingTypedIsReading
<1>11. ASSUME NEW f \in File, TypeIn(f) \/ Reread(f) PROVE Held'
  <2>1. /\ row[f] \in {"reading", "out"} /\ row'[f] = "out"
        /\ \A g \in File : g # f => row'[g] = row[g] /\ by'[g] = by[g]
        /\ UNCHANGED <<job, run, process, tick>>
    BY <1>11 DEF TypeIn, Reread, Exists, TypeOK
  <2>2. QED
    BY <2>1 DEF Held, NothingTypedIsReading
<1>12. ASSUME NEW f \in File, DeleteRow(f) PROVE Held'
  <2>1. /\ row'[f] = "gone" /\ by'[f] = "nobody" /\ job'[f].state = "none"
        /\ \A g \in File : g # f => row'[g] = row[g] /\ by'[g] = by[g] /\ job'[g] = job[g]
        /\ UNCHANGED <<run, process, tick>>
    BY <1>12 DEF DeleteRow, NoJob, TypeOK
  <2>2. QED
    BY <2>1 DEF Held, NothingTypedIsReading
<1>13. ASSUME Exit \/ \E f \in File : ExitStoring(f) PROVE Held'
  <2>1. /\ process' = "down" /\ ~tick' /\ \A g \in File : run'[g] = "idle"
        /\ UNCHANGED <<by, job>>
        /\ \A g \in File : row'[g] = row[g] \/ (row[g] = "absent" /\ row'[g] = "reading")
    BY <1>13 DEF Exit, ExitStoring, Down, TypeOK
  <2>2. QED
    BY <2>1 DEF Held, NothingTypedIsReading
<1>14. ASSUME Boot PROVE Held'
  <2>1. process = "down" /\ process' = "up" /\ UNCHANGED <<by, run>>
    BY <1>14 DEF Boot
  <2>2. \A g \in File :
          \/ job'[g] = Recovered(g) /\ (row'[g] = row[g] \/ (row[g] = "reading" /\ row'[g] = "out"))
          \/ row[g] \in {"reading", "gone"} /\ row'[g] = "reading" /\ job'[g] = NewJob
    BY <1>14 DEF Boot, Whole
  <2>3. \A g \in File : Recovered(g).state # "reading" /\ (job[g].state = "none" => Recovered(g).state = "none")
    BY DEF Recovered, TypeOK, Job
  <2>4. QED
    BY <2>1, <2>2, <2>3 DEF Held, NothingTypedIsReading, NewJob
<1>15. CASE UNCHANGED vars
  BY <1>15 DEF Held, vars, NothingTypedIsReading
<1>16. QED
  BY <1>1, <1>2, <1>3, <1>4, <1>5, <1>6, <1>7, <1>8, <1>9, <1>10, <1>11, <1>12, <1>13, <1>14, <1>15
  DEF Next, Worker, RunStep, PersonStep

\* What a person typed in is never on a row the reader's answer would land on.
THEOREM TypedIsNotReading == Spec => []NothingTypedIsReading
<1>1. Init => Held
  BY DEF Init, Held, NoJob, NothingTypedIsReading
<1>2. TypeOK /\ Held /\ [Next]_vars => Held'
  BY HeldStep
<1>3. Held => NothingTypedIsReading
  BY DEF Held
<1>4. QED
  BY <1>1, <1>2, <1>3, TypeCorrect, PTL DEF Spec

\* And so no answer of the queue's, however late, is laid over it.
THEOREM TypedStaysTyped == Spec => TypedStays
<1>1. ASSUME TypeOK, NothingTypedIsReading, [Next]_vars
      PROVE  \A f \in File : by[f] = "person" /\ run[f] = "asked" /\ run'[f] = "landing" => by'[f] = "person"
  <2>1. ASSUME NEW f \in File, by[f] = "person", run[f] = "asked", run'[f] = "landing"
        PROVE  ReadAnswers(f)
    <3>1. ASSUME NEW g \in File, Run(g) PROVE FALSE
      BY <2>1, <3>1 DEF Run, TypeOK
    <3>2. ASSUME NEW g \in File, ReadBusy(g) \/ ReadFails(g) \/ ReadEnds(g) PROVE FALSE
      <4>1. run' = [run EXCEPT ![g] = "idle"]
        BY <3>2 DEF ReadBusy, ReadFails, ReadEnds, RunEnds
      <4>2. QED
        BY <2>1, <4>1 DEF TypeOK
    <3>3. ASSUME NEW g \in File, ReadAnswers(g), g # f PROVE FALSE
      BY <2>1, <3>3 DEF ReadAnswers, TypeOK
    <3>4. ASSUME NEW g \in File,
                 FindSibling(g) \/ BecomesDue(g) \/ PersonStep(g)
          PROVE  FALSE
      BY <2>1, <3>4 DEF FindSibling, BecomesDue, PersonStep, Store, HurryUp, TryAgain, Cancel,
                        TypeIn, Reread, RereadSibling, DeleteSibling, DeleteRow, runVars
    <3>5. ASSUME Exit \/ \E g \in File : ExitStoring(g) PROVE FALSE
      BY <2>1, <3>5 DEF Exit, ExitStoring, Down
    <3>6. ASSUME WakeFires \/ TickEnds \/ Stop \/ Boot \/ UNCHANGED vars PROVE FALSE
      BY <2>1, <3>6 DEF WakeFires, TickEnds, Stop, Boot, vars, runVars
    <3>7. QED
      BY <1>1, <3>1, <3>2, <3>3, <3>4, <3>5, <3>6 DEF Next, Worker, RunStep
  <2>2. ASSUME NEW f \in File, by[f] = "person", ReadAnswers(f)
        PROVE  by'[f] = "person"
    BY <1>1, <2>2 DEF ReadAnswers, Land, NothingTypedIsReading, TypeOK
  <2>3. QED
    BY <2>1, <2>2
<1>2. QED
  BY <1>1, TypeCorrect, TypedIsNotReading, PTL DEF Spec, TypedStays

-----------------------------------------------------------------------------
(* The limits.                                                             *)

Limits ==
  /\ Cardinality(Active) <= Concurrency
  /\ \A u \in User : Running(u) <= PerUser

\* A read begins by Run alone; every other step only ends reads.
LEMMA ActiveStep ==
  ASSUME TypeOK, [Next]_vars
  PROVE  \/ \E f \in File : Run(f) /\ Active' = Active \cup {f}
         \/ Active' \subseteq Active
<1> USE DEF Active, rowVars, runVars, wakeVars
<1>1. ASSUME NEW f \in File, Run(f) PROVE Active' = Active \cup {f}
  BY <1>1 DEF Run, TypeOK
<1>2. ASSUME NEW f \in File, ReadBusy(f) \/ ReadFails(f) \/ ReadEnds(f) PROVE Active' \subseteq Active
  BY <1>2 DEF ReadBusy, ReadFails, ReadEnds, RunEnds, TypeOK
<1>3. ASSUME NEW f \in File, ReadAnswers(f) PROVE Active' \subseteq Active
  BY <1>3 DEF ReadAnswers, TypeOK
<1>4. ASSUME NEW f \in File, FindSibling(f) \/ BecomesDue(f) \/ PersonStep(f)
      PROVE  Active' \subseteq Active
  BY <1>4 DEF FindSibling, BecomesDue, PersonStep, Store, HurryUp, TryAgain, Cancel,
              TypeIn, Reread, RereadSibling, DeleteSibling, DeleteRow
<1>5. ASSUME Exit \/ \E f \in File : ExitStoring(f) PROVE Active' \subseteq Active
  BY <1>5 DEF Exit, ExitStoring, Down
<1>6. ASSUME WakeFires \/ TickEnds \/ Stop \/ Boot \/ UNCHANGED vars PROVE Active' \subseteq Active
  BY <1>6 DEF WakeFires, TickEnds, Stop, Boot, vars
<1>7. QED
  BY <1>1, <1>2, <1>3, <1>4, <1>5, <1>6 DEF Next, Worker, RunStep

LEMMA ActiveFinite ==
  /\ IsFiniteSet(Active)
  /\ \A u \in User : IsFiniteSet({f \in Active : Owner[f] = u})
<1>1. IsFiniteSet(Active)
  BY FS_Subset, ReadQueueAssumption DEF Active
<1>2. \A u \in User : {f \in Active : Owner[f] = u} \subseteq Active
  OBVIOUS
<1>3. QED
  BY <1>1, <1>2, FS_Subset

LEMMA LimitsStep ==
  ASSUME TypeOK, Limits, [Next]_vars
  PROVE  Limits'
<1> DEFINE Of(u) == {f \in Active : Owner[f] = u}
<1>1. CASE Active' \subseteq Active
  <2>1. Cardinality(Active') <= Cardinality(Active) /\ Cardinality(Active') \in Nat /\ Cardinality(Active) \in Nat
    BY <1>1, ActiveFinite, FS_Subset, FS_CardinalityType
  <2>2. ASSUME NEW u \in User PROVE Cardinality(Of(u)') <= Cardinality(Of(u)) /\ Cardinality(Of(u)') \in Nat /\ Cardinality(Of(u)) \in Nat
    <3>1. Of(u)' \subseteq Of(u)
      BY <1>1
    <3>2. IsFiniteSet(Of(u))
      BY ActiveFinite
    <3>3. QED
      BY <3>1, <3>2, FS_Subset, FS_CardinalityType
  <2>3. Concurrency \in Nat /\ PerUser \in Nat
    BY ReadQueueAssumption
  <2>4. Cardinality(Active') <= Concurrency
    BY <2>1, <2>3 DEF Limits
  <2>5. ASSUME NEW u \in User PROVE Running(u)' <= PerUser
    <3>1. Running(u)' = Cardinality(Of(u)') /\ Running(u) = Cardinality(Of(u))
      BY DEF Running
    <3>2. Running(u) <= PerUser
      BY <2>5 DEF Limits
    <3>3. QED
      BY <2>2, <2>3, <2>5, <3>1, <3>2
  <2>6. QED
    BY <2>4, <2>5 DEF Limits
<1>2. ASSUME NEW f \in File, Run(f), Active' = Active \cup {f} PROVE Limits'
  <2>1. Cardinality(Active) < Concurrency /\ Running(Owner[f]) < PerUser
    BY <1>2 DEF Run, HasRoom, Picked, Eligible
  <2>2. Cardinality(Active') <= Cardinality(Active) + 1 /\ Cardinality(Active) \in Nat /\ Cardinality(Active') \in Nat
    <3>1. IsFiniteSet(Active)
      BY ActiveFinite
    <3>2. Cardinality(Active \cup {f}) \in {Cardinality(Active), Cardinality(Active) + 1}
      BY <3>1, FS_AddElement
    <3>3. Cardinality(Active) \in Nat
      BY <3>1, FS_CardinalityType
    <3>4. QED
      BY <1>2, <3>2, <3>3
  <2>3. ASSUME NEW u \in User, u # Owner[f] PROVE Running(u)' = Running(u)
    <3>1. Of(u)' = Of(u)
      BY <1>2, <2>3
    <3>2. QED
      BY <3>1 DEF Running
  <2>4. /\ Running(Owner[f])' <= Running(Owner[f]) + 1
        /\ Running(Owner[f])' \in Nat /\ Running(Owner[f]) \in Nat
    <3>1. Of(Owner[f])' = Of(Owner[f]) \cup {f}
      BY <1>2
    <3>2. Owner[f] \in User
      BY ReadQueueAssumption
    <3>3. IsFiniteSet(Of(Owner[f]))
      BY <3>2, ActiveFinite
    <3>4. QED
      BY <3>1, <3>3, FS_AddElement, FS_CardinalityType DEF Running
  <2>5. QED
    BY <2>1, <2>2, <2>3, <2>4, ReadQueueAssumption DEF Limits
<1>3. QED
  BY <1>1, <1>2, ActiveStep

\* A job says it is being read exactly while it is, within both limits.
THEOREM ReadsHeld == Spec => []ReadingIsRunning
<1>1. Init => Held /\ Limits
  <2>1. ASSUME Init PROVE Active = {} /\ \A u : {f \in Active : Owner[f] = u} = {}
    BY <2>1 DEF Init, Active
  <2>2. Init => Limits
    BY <2>1, FS_EmptySet, ReadQueueAssumption DEF Limits, Running
  <2>3. Init => Held
    BY DEF Init, Held, NoJob, NothingTypedIsReading
  <2>4. QED
    BY <2>2, <2>3
<1>2. TypeOK /\ Held /\ Limits /\ [Next]_vars => Held' /\ Limits'
  BY HeldStep, LimitsStep
<1>3. Held /\ Limits => ReadingIsRunning
  BY DEF Held, Limits, ReadingIsRunning
<1>4. QED
  BY <1>1, <1>2, <1>3, TypeCorrect, PTL DEF Spec

-----------------------------------------------------------------------------
(* How often a job is tried.                                               *)

\* A job that waits has an attempt left.
Tries ==
  \A f \in File :
    /\ job[f].attempts <= MAX_ATTEMPTS
    /\ job[f].state = "queued" => job[f].attempts < MAX_ATTEMPTS

LEMMA TriesStep ==
  ASSUME TypeOK, Tries, [Next]_vars
  PROVE  Tries'
<1> DEFINE Ok(j) == j.attempts <= MAX_ATTEMPTS /\ (j.state = "queued" => j.attempts < MAX_ATTEMPTS)
<1>1. \A f \in File : job[f] \in Job /\ job[f].attempts \in Nat /\ Ok(job[f])
  BY DEF TypeOK, Job, Tries
<1>2. MAX_ATTEMPTS \in Nat /\ MAX_ATTEMPTS >= 2 /\ Delays < MAX_ATTEMPTS /\ Delays \in Nat
  BY ReadQueueAssumption DEF MAX_ATTEMPTS
<1>3. Ok(NewJob) /\ Ok(NoJob)
  BY <1>2 DEF NewJob, NoJob
<1>4. ASSUME NEW f \in File, Run(f) PROVE Ok(job'[f]) /\ \A g \in File : g # f => job'[g] = job[g]
  <2>1. job[f].state = "queued" /\ job'[f].attempts = job[f].attempts + 1 /\ job'[f].state = "reading"
    BY <1>1, <1>4 DEF Run, Picked, Eligible, TypeOK, Job
  <2>2. \A g \in File : g # f => job'[g] = job[g]
    BY <1>4 DEF Run, TypeOK
  <2>3. QED
    BY <1>1, <1>2, <2>1, <2>2
<1>5. ASSUME NEW f \in File, ReadBusy(f) \/ ReadFails(f) PROVE Ok(job'[f]) /\ \A g \in File : g # f => job'[g] = job[g]
  <2>1. CASE UNCHANGED job
    BY <1>1, <2>1
  <2>2. ASSUME NEW k, job[f].attempts < MAX_ATTEMPTS, Retry(f, k)
        PROVE  Ok(job'[f]) /\ \A g \in File : g # f => job'[g] = job[g]
    <3>1. job'[f].attempts = job[f].attempts /\ \A g \in File : g # f => job'[g] = job[g]
      BY <1>1, <2>2 DEF Retry, TypeOK, Job
    <3>2. QED
      BY <1>1, <1>2, <2>2, <3>1
  <2>3. ASSUME NEW k, Fail(f, k)
        PROVE  Ok(job'[f]) /\ \A g \in File : g # f => job'[g] = job[g]
    <3>1. job'[f].attempts = job[f].attempts /\ job'[f].state = "failed" /\ \A g \in File : g # f => job'[g] = job[g]
      BY <1>1, <2>3 DEF Fail, TypeOK, Job
    <3>2. QED
      BY <1>1, <3>1
  <2>4. RetriesBusy(f) \/ RetriesError(f) => job[f].attempts < MAX_ATTEMPTS
    BY <1>1, <1>2 DEF RetriesBusy, RetriesError
  <2>5. QED
    BY <1>5, <2>1, <2>2, <2>3, <2>4 DEF ReadBusy, ReadFails, Gone
<1>6. ASSUME NEW f \in File,
             BecomesDue(f) \/ HurryUp(f) \/ Cancel(f) \/ ReadEnds(f)
      PROVE  \A g \in File : job'[g].attempts = job[g].attempts /\ (job'[g].state = "queued" => job[g].state = "queued")
  <2>1. CASE BecomesDue(f) \/ HurryUp(f)
    <3>1. job' = [job EXCEPT ![f].due = TRUE]
      BY <2>1 DEF BecomesDue, HurryUp
    <3>2. QED
      BY <1>1, <3>1 DEF TypeOK, Job
  <2>2. CASE Cancel(f)
    BY <1>1, <2>2 DEF Cancel, TypeOK, Job
  <2>3. CASE ReadEnds(f)
    BY <1>1, <2>3 DEF ReadEnds, TypeOK, Job
  <2>4. QED
    BY <1>6, <2>1, <2>2, <2>3
<1>7. ASSUME TickEnds
      PROVE  \A g \in File : job'[g].attempts = job[g].attempts /\ job'[g].state = job[g].state
  BY <1>1, <1>7 DEF TickEnds, Job
<1>8. ASSUME NEW f \in File, Store(f) \/ TryAgain(f) \/ DeleteRow(f)
      PROVE  \A g \in File : job'[g] \in {job[g], NewJob, NoJob}
  BY <1>8 DEF Store, TryAgain, DeleteRow, TypeOK
<1>9. ASSUME Boot PROVE \A g \in File : Ok(job'[g])
  <2>1. \A g \in File : Ok(Recovered(g))
    BY <1>1, <1>2 DEF Recovered, Job
  <2>2. QED
    BY <1>3, <1>9, <2>1 DEF Boot
<1>10. ASSUME \/ \E f \in File : \/ ReadAnswers(f) \/ FindSibling(f) \/ TypeIn(f) \/ Reread(f)
                                  \/ RereadSibling(f) \/ DeleteSibling(f) \/ ExitStoring(f)
              \/ WakeFires \/ Stop \/ Exit \/ UNCHANGED vars
       PROVE  UNCHANGED job
  BY <1>10 DEF ReadAnswers, FindSibling, TypeIn, Reread, RereadSibling, DeleteSibling, ExitStoring,
               WakeFires, Stop, Exit, vars
<1>11. \A g \in File : Ok(job'[g])
  BY <1>1, <1>3, <1>4, <1>5, <1>6, <1>7, <1>8, <1>9, <1>10 DEF Next, Worker, RunStep, PersonStep
<1>12. QED
  BY <1>11 DEF Tries

\* However its failures fall, a job is never tried more than MAX_ATTEMPTS times.
THEOREM TriedSoOften == Spec => []TriesBounded
<1>1. Init => Tries
  BY ReadQueueAssumption DEF Init, Tries, NoJob, MAX_ATTEMPTS
<1>2. TypeOK /\ Tries /\ [Next]_vars => Tries'
  BY TriesStep
<1>3. Tries => TriesBounded
  BY DEF Tries, TriesBounded
<1>4. QED
  BY <1>1, <1>2, <1>3, TypeCorrect, PTL DEF Spec

-----------------------------------------------------------------------------
(* Rows are released.                                                      *)

\* Without a restart in the middle of a split, a row being read has a live job.
Released ==
  /\ \A f \in File : orphans[f] = 0
  /\ process # "down" => \A f \in File : row[f] = "reading" => Live(f)

\* The end of a read that failed: its own job is live again, or its row is out.
LEMMA SettledReleased ==
  ASSUME TypeOK, Held, Released, NEW f \in File, NEW k,
         Free, run[f] # "idle",
         \/ job[f].state = "reading" /\ (Retry(f, k) \/ Fail(f, k))
         \/ Gone(f),
         RunEnds(f)
  PROVE  Released'
<1>1. process' = process /\ process # "down"
  BY DEF RunEnds, Free
<1>2. CASE Retry(f, k)
  <2>1. job'[f].state = "queued" /\ \A g \in File : g # f => job'[g] = job[g]
    BY <1>2 DEF Retry, TypeOK, Job
  <2>2. UNCHANGED <<row, orphans>>
    BY <1>2 DEF Retry
  <2>3. QED
    BY <1>1, <2>1, <2>2 DEF Released, Live
<1>3. CASE Fail(f, k)
  <2>1. row'[f] # "reading" /\ \A g \in File : g # f => job'[g] = job[g] /\ row'[g] = row[g]
    BY <1>3 DEF Fail, Release, TypeOK
  <2>2. \A g \in File : orphans'[g] = 0
    BY <1>3 DEF Fail, Release, TypeOK, Released
  <2>3. QED
    BY <1>1, <2>1, <2>2 DEF Released, Live
<1>4. CASE Gone(f)
  <2>1. UNCHANGED <<job, row, orphans>>
    BY <1>4 DEF Gone
  <2>2. QED
    BY <1>1, <2>1 DEF Released, Live
<1>5. QED
  BY <1>2, <1>3, <1>4

LEMMA ReleasedStep ==
  ASSUME ~CutSplits, TypeOK, Held, Released, [Next]_vars
  PROVE  Released'
<1> USE DEF rowVars, runVars, wakeVars
<1>1. ASSUME WakeFires \/ Stop PROVE Released'
  BY <1>1 DEF Released, Live, WakeFires, Stop, Free
<1>2. ASSUME NEW f \in File, Run(f) PROVE Released'
  <2>1. job'[f].state = "reading" /\ \A g \in File : g # f => job'[g] = job[g]
    BY <1>2 DEF Run, TypeOK, Job
  <2>2. UNCHANGED <<row, orphans, process>>
    BY <1>2 DEF Run
  <2>3. QED
    BY <2>1, <2>2 DEF Released, Live
<1>3. ASSUME TickEnds \/ \E f \in File : BecomesDue(f) \/ HurryUp(f) PROVE Released'
  <2>1. \A g \in File : job'[g].state = job[g].state
    <3>1. CASE TickEnds
      BY <3>1 DEF TickEnds, TypeOK, Job
    <3>2. ASSUME NEW f \in File, BecomesDue(f) \/ HurryUp(f)
          PROVE  \A g \in File : job'[g].state = job[g].state
      <4>1. job' = [job EXCEPT ![f].due = TRUE]
        BY <3>2 DEF BecomesDue, HurryUp
      <4>2. QED
        BY <4>1 DEF TypeOK, Job
    <3>3. QED
      BY <1>3, <3>1, <3>2
  <2>2. UNCHANGED <<row, orphans, process>>
    BY <1>3 DEF TickEnds, BecomesDue, HurryUp
  <2>3. QED
    BY <2>1, <2>2 DEF Released, Live
<1>4. ASSUME NEW f \in File, ReadBusy(f) \/ ReadFails(f) PROVE Released'
  BY <1>4, SettledReleased DEF ReadBusy, ReadFails
<1>5. ASSUME NEW f \in File, ReadAnswers(f) \/ FindSibling(f) \/ TypeIn(f) PROVE Released'
  BY <1>5 DEF Released, Live, ReadAnswers, FindSibling, TypeIn
<1>6. ASSUME NEW f \in File, ReadEnds(f) PROVE Released'
  <2>1. row'[f] # "reading" /\ \A g \in File : g # f => job'[g] = job[g] /\ row'[g] = row[g]
    BY <1>6 DEF ReadEnds, TypeOK
  <2>2. UNCHANGED <<orphans, process>>
    BY <1>6 DEF ReadEnds, RunEnds
  <2>3. QED
    BY <2>1, <2>2 DEF Released, Live
<1>7. ASSUME NEW f \in File, Store(f) \/ TryAgain(f) PROVE Released'
  <2>1. job'[f].state = "queued" /\ \A g \in File : g # f => job'[g] = job[g] /\ row'[g] = row[g]
    BY <1>7 DEF Store, TryAgain, NewJob, TypeOK
  <2>2. UNCHANGED <<orphans, process>>
    BY <1>7 DEF Store, TryAgain
  <2>3. QED
    BY <2>1, <2>2 DEF Released, Live
<1>8. ASSUME NEW f \in File, Cancel(f) PROVE Released'
  <2>1. /\ row'[f] # "reading" /\ \A g \in File : g # f => job'[g] = job[g] /\ row'[g] = row[g]
        /\ \A g \in File : orphans'[g] = orphans[g] \/ orphans'[g] = 0
    BY <1>8 DEF Cancel, Release, TypeOK
  <2>2. UNCHANGED process
    BY <1>8 DEF Cancel
  <2>3. QED
    BY <2>1, <2>2 DEF Released, Live
<1>9. ASSUME NEW f \in File, Reread(f) \/ DeleteRow(f) PROVE Released'
  <2>1. row'[f] # "reading" /\ \A g \in File : g # f => job'[g] = job[g] /\ row'[g] = row[g]
    BY <1>9 DEF Reread, DeleteRow, TypeOK
  <2>2. UNCHANGED <<orphans, process>>
    BY <1>9 DEF Reread, DeleteRow
  <2>3. QED
    BY <2>1, <2>2 DEF Released, Live
<1>10. ASSUME NEW f \in File, RereadSibling(f) \/ DeleteSibling(f) PROVE Released'
  <2>1. UNCHANGED orphans
    BY <1>10 DEF Released, RereadSibling, DeleteSibling
  <2>2. UNCHANGED <<job, row, process>>
    BY <1>10 DEF RereadSibling, DeleteSibling
  <2>3. QED
    BY <2>1, <2>2 DEF Released, Live
<1>11. ASSUME Exit \/ \E f \in File : ExitStoring(f) PROVE Released'
  <2>1. \A g \in File : own[g] = 0
    BY <1>11 DEF Exit, ExitStoring
  <2>2. process' = "down" /\ orphans' = [g \in File |-> orphans[g] + own[g]]
    BY <1>11 DEF Exit, ExitStoring, Down
  <2>3. \A g \in File : orphans'[g] = 0
    BY <2>1, <2>2 DEF Released
  <2>4. QED
    BY <2>2, <2>3 DEF Released
<1>12. ASSUME Boot PROVE Released'
  <2>1. \A g \in File : orphans'[g] = 0
    BY <1>12 DEF Boot, Released
  <2>2. ASSUME NEW g \in File, row'[g] = "reading" PROVE Live(g)'
    <3>1. \/ job'[g] = NewJob
          \/ Live(g) /\ job'[g] = Recovered(g)
      BY <1>12, <2>2 DEF Boot, Stuck
    <3>2. Live(g) => Recovered(g).state = "queued"
      BY DEF Live, Recovered, TypeOK, Job
    <3>3. QED
      BY <3>1, <3>2 DEF Live, NewJob
  <2>3. QED
    BY <2>1, <2>2 DEF Released
<1>13. CASE UNCHANGED vars
  BY <1>13 DEF Released, Live, vars
<1>14. QED
  BY <1>1, <1>2, <1>3, <1>4, <1>5, <1>6, <1>7, <1>8, <1>9, <1>10, <1>11, <1>12, <1>13
  DEF Next, Worker, RunStep, PersonStep

\* Unless a restart catches a read in the middle of a split, a row is only
\* 'reading' while its read is waiting or under way.
THEOREM RowsReleased == ~CutSplits /\ Spec => []NoRowLeftReading
<1>1. ASSUME Init PROVE Released
  BY <1>1 DEF Init, Released
<1>2. ASSUME Init PROVE Held
  BY <1>2 DEF Init, Held, NoJob, NothingTypedIsReading
<1>3. TypeOK /\ Held /\ [Next]_vars => Held'
  BY HeldStep
<1>4. ~CutSplits /\ TypeOK /\ Held /\ Released /\ [Next]_vars => Released'
  BY ReleasedStep
<1>5. TypeOK /\ Released => NoRowLeftReading
  BY DEF Released, NoRowLeftReading, TypeOK
<1>6. ASSUME ~CutSplits PROVE Spec => []NoRowLeftReading
  <2>1. TypeOK /\ Held /\ Released /\ [Next]_vars => Released'
    BY <1>4, <1>6
  <2>2. QED
    BY <1>1, <1>2, <1>3, <1>5, <2>1, TypeCorrect, PTL DEF Spec
<1>7. QED
  BY <1>6

-----------------------------------------------------------------------------
(* The worker wakes.                                                       *)

\* What the tick leaves waiting, it leaves with a timer or with a read to end.
LEMMA TickLeavesAwake ==
  ASSUME ~ClockInTick, TypeOK, TickEnds, NEW f \in File, job[f].state = "queued"
  PROVE  timer' \/ Active # {}
<1>1. job' = job /\ (timer' = \E g \in File : job[g].state = "queued" /\ ~job[g].due)
  <2>1. PICK late \in SUBSET {g \in File : job[g].state = "queued" /\ ~job[g].due} :
          /\ late = {} \/ ClockInTick
          /\ job' = [g \in File |-> IF g \in late THEN [job[g] EXCEPT !.due = TRUE] ELSE job[g]]
          /\ timer' = \E g \in File \ late : job[g].state = "queued" /\ ~job[g].due
    BY DEF TickEnds
  <2>2. late = {}
    BY <2>1
  <2>3. QED
    BY <2>1, <2>2 DEF TypeOK
<1>2. CASE ~job[f].due
  BY <1>1, <1>2
<1>3. CASE ~HasRoom
  <2>1. Active = {} => Cardinality(Active) = 0
    BY FS_EmptySet
  <2>2. QED
    BY <1>3, <2>1, ReadQueueAssumption DEF HasRoom
<1>4. CASE job[f].due /\ HasRoom
  <2>1. ~(Running(Owner[f]) < PerUser)
    BY <1>4 DEF TickEnds, Eligible
  <2>2. Active = {} => Running(Owner[f]) = 0
    <3>1. Active = {} => {g \in Active : Owner[g] = Owner[f]} = {}
      OBVIOUS
    <3>2. QED
      BY <3>1, FS_EmptySet DEF Running
  <2>3. QED
    BY <2>1, <2>2, ReadQueueAssumption
<1>5. QED
  BY <1>2, <1>3, <1>4

LEMMA AwakeStep ==
  ASSUME ~ClockInTick, TypeOK, AwakeWhileWaiting, [Next]_vars
  PROVE  AwakeWhileWaiting'
<1> USE DEF rowVars, runVars, wakeVars
<1> SUFFICES ASSUME process' = "up", ~tick', NEW f \in File, job'[f].state = "queued"
             PROVE  soon' \/ timer' \/ Active' # {}
  BY DEF AwakeWhileWaiting
<1>1. ASSUME NEW g \in File,
             \/ ReadBusy(g) \/ ReadFails(g) \/ ReadEnds(g)
             \/ Store(g) \/ HurryUp(g) \/ TryAgain(g)
      PROVE  soon'
  BY <1>1 DEF ReadBusy, ReadFails, ReadEnds, RunEnds, Store, HurryUp, TryAgain, Wake
<1>2. ASSUME TickEnds PROVE timer' \/ Active' # {}
  <2>1. job[f].state = "queued" /\ Active' = Active
    BY <1>2 DEF TickEnds, TypeOK, Job, Active
  <2>2. QED
    BY <1>2, <2>1, TickLeavesAwake
<1>3. ASSUME NEW g \in File,
             \/ BecomesDue(g) \/ ReadAnswers(g) \/ FindSibling(g)
             \/ Cancel(g) \/ TypeIn(g) \/ Reread(g) \/ RereadSibling(g)
             \/ DeleteSibling(g) \/ DeleteRow(g)
      PROVE  soon' \/ timer' \/ Active' # {}
  <2>1. UNCHANGED <<process, tick, soon, timer>>
    BY <1>3 DEF BecomesDue, ReadAnswers, FindSibling, Cancel, TypeIn, Reread, RereadSibling,
                DeleteSibling, DeleteRow
  <2>2. job[f].state = "queued"
    <3>1. CASE UNCHANGED job
      BY <3>1
    <3>2. CASE BecomesDue(g) \/ Cancel(g)
      BY <3>2 DEF BecomesDue, Cancel, TypeOK, Job
    <3>3. CASE DeleteRow(g)
      BY <3>3 DEF DeleteRow, NoJob, TypeOK
    <3>4. QED
      BY <1>3, <3>1, <3>2, <3>3 DEF ReadAnswers, FindSibling, TypeIn, Reread, RereadSibling, DeleteSibling
  <2>3. Active' = Active
    BY <1>3 DEF BecomesDue, ReadAnswers, FindSibling, Cancel, TypeIn, Reread, RereadSibling,
                DeleteSibling, DeleteRow, Active, TypeOK
  <2>4. QED
    BY <2>1, <2>2, <2>3 DEF AwakeWhileWaiting
<1>4. ASSUME WakeFires \/ Boot \/ \E g \in File : Run(g) PROVE FALSE
  <2>1. tick'
    <3>1. CASE WakeFires \/ Boot
      BY <3>1 DEF WakeFires, Boot
    <3>2. ASSUME NEW g \in File, Run(g) PROVE tick'
      <4>1. tick /\ tick' = tick
        BY <3>2 DEF Run
      <4>2. QED
        BY <4>1
    <3>3. QED
      BY <1>4, <3>1, <3>2
  <2>2. QED
    BY <2>1
<1>5. ASSUME Stop \/ Exit \/ \E g \in File : ExitStoring(g) PROVE FALSE
  BY <1>5 DEF Stop, Exit, ExitStoring, Down
<1>6. CASE UNCHANGED vars
  BY <1>6 DEF vars, AwakeWhileWaiting, Active
<1>7. QED
  BY <1>1, <1>2, <1>3, <1>4, <1>5, <1>6 DEF Next, Worker, RunStep, PersonStep

\* As long as no job comes due inside a tick, the worker never sleeps on one
\* that waits without something to wake it.
THEOREM AlwaysAwake == ~ClockInTick /\ Spec => []AwakeWhileWaiting
<1>1. Init => AwakeWhileWaiting
  BY DEF Init, AwakeWhileWaiting, NoJob
<1>2. ASSUME ~ClockInTick PROVE Spec => []AwakeWhileWaiting
  <2>1. TypeOK /\ AwakeWhileWaiting /\ [Next]_vars => AwakeWhileWaiting'
    BY <1>2, AwakeStep
  <2>2. QED
    BY <1>1, <2>1, TypeCorrect, PTL DEF Spec
<1>3. QED
  BY <1>2

-----------------------------------------------------------------------------
\* The queue's table, its reads under way and the rows agree in every reachable
\* state, for any files, people, limits and bounds.
THEOREM QueueStaysHeld == Spec => []QueueHolds
BY TypeCorrect, ReadsHeld, TypedIsNotReading, TriedSoOften, PTL DEF QueueHolds

-----------------------------------------------------------------------------
(* A file and its receipts.  First, sets of numbers in order.              *)

\* The numbers of a set in order: each of them, once.
LEMMA InOrderIs ==
  ASSUME NEW S \in SUBSET Nat, IsFiniteSet(S)
  PROVE  /\ Cardinality(S) \in Nat
         /\ InOrder(S) \in [1 .. Cardinality(S) -> S]
         /\ Range(InOrder(S)) = S /\ IsInjective(InOrder(S))
<1>1. PICK at, n : at = Ordered(S) /\ n = Cardinality(S)
  OBVIOUS
<1>2. /\ n \in Nat /\ \A k \in 1 .. n : at[k] \in S
      /\ \A p \in S : \E k \in 1 .. n : at[k] = p
      /\ \A k, l \in 1 .. n : at[k] = at[l] => k = l
  <2>1. Cardinality(S) \in Nat /\ \A k \in 1 .. Cardinality(S) : Ordered(S)[k] \in S
    BY OrderedIs
  <2>2. \A p \in S : \E k \in 1 .. Cardinality(S) : Ordered(S)[k] = p
    <3>1. \A i \in S : Cardinality({j \in S : j < i}) + 1 \in 1..Cardinality(S) /\ Ordered(S)[Cardinality({j \in S : j < i}) + 1] = i
      BY OrderedIs
    <3> QED BY <3>1
  <2>3. \A k, l \in 1 .. Cardinality(S) : Ordered(S)[k] = Ordered(S)[l] => k = l
    BY OrderedIs
  <2> QED BY <1>1, <2>1, <2>2, <2>3
<1>3. InOrder(S) = at /\ DOMAIN at = 1 .. n /\ at = [k \in 1 .. n |-> at[k]]
  <2>1. InOrder(S) = Ordered(S)
    BY Zenon DEF InOrder, Ordered
  <2> DEFINE c(k) == CHOOSE i \in S : Cardinality({j \in S : j < i}) = k - 1
  <2>2. PICK r : r = [k \in 1 .. n |-> c(k)]
    OBVIOUS
  <2>3. at = r
    BY <1>1, <2>2, Zenon DEF Ordered
  <2> HIDE DEF c
  <2>4. DOMAIN r = 1 .. n
    BY <2>2
  <2>5. r = [k \in 1 .. n |-> r[k]]
    BY <2>2
  <2> QED BY <1>1, <2>1, <2>3, <2>4, <2>5
<1>4. at \in [1 .. n -> S]
  BY <1>2, <1>3
<1>5. Range(at) = S /\ IsInjective(at)
  BY <1>2, <1>3 DEF Range, IsInjective
<1> QED BY <1>1, <1>2, <1>3, <1>4, <1>5

-----------------------------------------------------------------------------
(* Sequences.                                                              *)

IsSeq(s) == s \in Seq(Range(s))

LEMMA SeqIs ==
  ASSUME NEW T, NEW s \in Seq(T) PROVE IsSeq(s) /\ Range(s) \subseteq T /\ DOMAIN s = 1 .. Len(s) /\ Len(s) \in Nat
<1>1. DOMAIN s = 1 .. Len(s) /\ Len(s) \in Nat
  OBVIOUS
<1>2. \A i \in 1 .. Len(s) : s[i] \in Range(s) /\ s[i] \in T
  BY <1>1 DEF Range
<1>3. s \in [1 .. Len(s) -> Range(s)]
  BY <1>1, <1>2
<1>4. s \in Seq(Range(s))
  BY <1>1, <1>3
<1> QED BY <1>1, <1>2, <1>4 DEF IsSeq, Range

\* What stands where in two sequences, one after the other.
LEMMA Joins ==
  ASSUME NEW s, NEW t, IsSeq(s), IsSeq(t)
  PROVE  /\ IsSeq(s \o t) /\ Len(s \o t) = Len(s) + Len(t) /\ Range(s \o t) = Range(s) \cup Range(t)
         /\ DOMAIN s = 1 .. Len(s) /\ DOMAIN t = 1 .. Len(t) /\ DOMAIN (s \o t) = 1 .. Len(s \o t)
         /\ Len(s) \in Nat /\ Len(t) \in Nat
         /\ \A i \in DOMAIN (s \o t) : (i \in DOMAIN s /\ (s \o t)[i] = s[i]) \/ (i - Len(s) \in DOMAIN t /\ (s \o t)[i] = t[i - Len(s)])
<1> DEFINE T == Range(s) \cup Range(t)
<1>1. s \in Seq(T) /\ t \in Seq(T)
  BY DEF IsSeq
<1>2. s \o t \in Seq(T) /\ Len(s) \in Nat /\ Len(t) \in Nat /\ Len(s \o t) = Len(s) + Len(t)
  BY <1>1
<1>3. DOMAIN s = 1 .. Len(s) /\ DOMAIN t = 1 .. Len(t) /\ DOMAIN (s \o t) = 1 .. Len(s \o t)
  BY <1>1, <1>2
<1>4. \A i \in 1 .. Len(s) + Len(t) : (s \o t)[i] = IF i <= Len(s) THEN s[i] ELSE t[i - Len(s)]
  BY <1>1
<1>5. \A i \in DOMAIN (s \o t) : (i \in DOMAIN s /\ (s \o t)[i] = s[i]) \/ (i - Len(s) \in DOMAIN t /\ (s \o t)[i] = t[i - Len(s)])
  BY <1>2, <1>3, <1>4
<1>6. IsSeq(s \o t)
  BY <1>2, SeqIs
<1>7. Range(s \o t) \subseteq T
  BY <1>2, SeqIs
<1>8. \A i \in DOMAIN s : i \in DOMAIN (s \o t) /\ (s \o t)[i] = s[i]
  BY <1>2, <1>3, <1>4
<1>9. \A i \in DOMAIN t : i + Len(s) \in DOMAIN (s \o t) /\ (s \o t)[i + Len(s)] = t[i]
  BY <1>2, <1>3, <1>4
<1>10. T \subseteq Range(s \o t)
  BY <1>8, <1>9 DEF Range
<1> QED BY <1>2, <1>3, <1>5, <1>6, <1>7, <1>10

\* All but the first.
LEMMA TailIs ==
  ASSUME NEW s, IsSeq(s), s # <<>>
  PROVE  /\ IsSeq(Tail(s)) /\ Len(s) \in Nat /\ Len(s) > 0 /\ Len(Tail(s)) = Len(s) - 1
         /\ Head(s) = s[1] /\ 1 \in DOMAIN s
         /\ \A i \in DOMAIN Tail(s) : i \in Nat /\ i >= 1 /\ i + 1 \in DOMAIN s /\ Tail(s)[i] = s[i + 1]
         /\ \A i \in DOMAIN s : i = 1 \/ \E k \in DOMAIN Tail(s) : k + 1 = i /\ s[i] = Tail(s)[k]
<1>1. s \in Seq(Range(s))
  BY DEF IsSeq
<1>2. Len(s) \in Nat /\ Len(s) > 0 /\ DOMAIN s = 1 .. Len(s)
  BY <1>1
<1>3. Tail(s) \in Seq(Range(s)) /\ Len(Tail(s)) = Len(s) - 1 /\ Head(s) = s[1]
  BY <1>1
<1>4. DOMAIN Tail(s) = 1 .. Len(s) - 1
  BY <1>2, <1>3
<1>5. \A i \in 1 .. Len(s) - 1 : Tail(s)[i] = s[i + 1]
  BY <1>1
<1>6. \A i \in DOMAIN Tail(s) : i \in Nat /\ i >= 1 /\ i + 1 \in DOMAIN s /\ Tail(s)[i] = s[i + 1]
  BY <1>2, <1>4, <1>5
<1>7. ASSUME NEW i \in DOMAIN s, i # 1 PROVE \E k \in DOMAIN Tail(s) : k + 1 = i /\ s[i] = Tail(s)[k]
  <2>1. i - 1 \in DOMAIN Tail(s) /\ (i - 1) + 1 = i
    BY <1>2, <1>4, <1>7
  <2> QED BY <2>1, <1>6
<1>8. IsSeq(Tail(s))
  BY <1>3, SeqIs
<1> QED BY <1>2, <1>3, <1>6, <1>7, <1>8

-----------------------------------------------------------------------------
(* Questions.                                                              *)

\* Numbers without repeats.
Places(ps, S) == IsSeq(ps) /\ Range(ps) \subseteq S /\ IsInjective(ps) /\ ps # <<>>

LEMMA SliceIs ==
  ASSUME NEW S, NEW ps \in Seq(S), IsInjective(ps), NEW a \in 1 .. Len(ps), NEW b \in a .. Len(ps)
  PROVE  /\ Places(SubSeq(ps, a, b), S) /\ Len(SubSeq(ps, a, b)) = b - a + 1
         /\ \A i \in DOMAIN SubSeq(ps, a, b) : i \in 1 .. b - a + 1 /\ SubSeq(ps, a, b)[i] = ps[a + i - 1]
         /\ \A k \in a .. b : ps[k] \in Range(SubSeq(ps, a, b))
<1> DEFINE sl == SubSeq(ps, a, b)
<1>1. Len(ps) \in Nat /\ DOMAIN ps = 1 .. Len(ps) /\ a \in Nat /\ b \in Nat /\ a >= 1 /\ b >= a /\ b <= Len(ps)
  OBVIOUS
<1>2. sl = [i \in 1 .. b - a + 1 |-> ps[a + i - 1]] /\ Len(sl) = b - a + 1 /\ DOMAIN sl = 1 .. b - a + 1
  BY <1>1
<1>3. \A i \in 1 .. b - a + 1 : a + i - 1 \in DOMAIN ps /\ sl[i] = ps[a + i - 1] /\ sl[i] \in S
  BY <1>1, <1>2
<1>4. sl \in Seq(S)
  BY <1>1, <1>2, <1>3
<1> HIDE DEF sl
<1>5. \A i, j \in 1 .. b - a + 1 : sl[i] = sl[j] => i = j
  <2> SUFFICES ASSUME NEW i \in 1 .. b - a + 1, NEW j \in 1 .. b - a + 1, sl[i] = sl[j] PROVE i = j
    OBVIOUS
  <2>1. a + i - 1 \in DOMAIN ps /\ a + j - 1 \in DOMAIN ps /\ ps[a + i - 1] = ps[a + j - 1]
    BY <1>3
  <2>2. a + i - 1 = a + j - 1
    BY <2>1 DEF IsInjective
  <2> QED BY <2>2, <1>1
<1>6. IsInjective(sl)
  BY <1>2, <1>5 DEF IsInjective
<1>7. \A k \in a .. b : k - a + 1 \in 1 .. b - a + 1 /\ sl[k - a + 1] = ps[k]
  BY <1>1, <1>3
<1>8. \A k \in a .. b : ps[k] \in Range(sl)
  BY <1>2, <1>7 DEF Range
<1>9. sl # <<>>
  BY <1>1, <1>2
<1>10. Places(sl, S)
  BY <1>4, <1>6, <1>9, SeqIs DEF Places
<1> QED BY <1>2, <1>3, <1>8, <1>10 DEF sl

LEMMA SingleIs ==
  ASSUME NEW S, NEW s \in Seq(S), Len(s) = 1 PROVE s = <<s[1]>> /\ s[1] \in S
<1>1. s[1] \in S
  OBVIOUS
<1>2. <<s[1]>> \in Seq(S) /\ Len(<<s[1]>>) = 1 /\ <<s[1]>>[1] = s[1]
  BY <1>1
<1>3. \A i \in 1 .. Len(s) : s[i] = <<s[1]>>[i]
  BY <1>2
<1>4. s = <<s[1]>>
  BY <1>2, <1>3, SeqEqual
<1> QED BY <1>1, <1>4

\* A scanned page is asked about alone, or with others of its batch.
IsAlone(q, S) == \E p \in S : q = Ask("alone", <<p>>)
IsBatch(q, S) == q = Ask("batch", q.pages) /\ Places(q.pages, S)
OfScans(qs, S) ==
  /\ IsSeq(qs) /\ \A i \in DOMAIN qs : IsAlone(qs[i], S) \/ IsBatch(qs[i], S)
  /\ \A i, j \in DOMAIN qs : i # j => Range(qs[i].pages) \cap Range(qs[j].pages) = {}
Names(qs, p) == \E i \in DOMAIN qs : p \in Range(qs[i].pages)

LEMMA AloneIs ==
  ASSUME NEW p
  PROVE  /\ Ask("alone", <<p>>).how = "alone" /\ Ask("alone", <<p>>).pages = <<p>> /\ Range(<<p>>) = {p}
         /\ <<p>>[1] = p
BY DEF Ask, Range

LEMMA ByBatches ==
  ASSUME NEW B \in Nat, B > 0, NEW n \in Nat, NEW i \in 1 .. ((n + B - 1) \div B)
  PROVE  i \in Nat /\ (i - 1) * B + 1 \in 1 .. n /\ Least(i * B, n) \in ((i - 1) * B + 1) .. n
<1>1. i * B <= n + B - 1
  OBVIOUS
<1>2. (i - 1) * B = i * B - B /\ i * B \in Nat /\ i >= 1 /\ (i - 1) * B >= 0
  OBVIOUS
<1> QED BY <1>1, <1>2 DEF Least

LEMMA BatchesApart ==
  ASSUME NEW B \in Nat, B > 0, NEW i \in Nat, NEW j \in Nat, i < j
  PROVE  i * B <= (j - 1) * B /\ i * B \in Nat /\ (j - 1) * B \in Nat
<1>1. (j - 1) - i \in Nat
  OBVIOUS
<1>2. ((j - 1) - i) * B \in Nat /\ (j - 1) * B = i * B + ((j - 1) - i) * B
  BY <1>1
<1> QED BY <1>2

LEMMA BatchOf ==
  ASSUME NEW B \in Nat, B > 0, NEW n \in Nat, NEW k \in 1 .. n
  PROVE  LET i == ((k - 1) \div B) + 1
         IN  i \in 1 .. ((n + B - 1) \div B) /\ k \in ((i - 1) * B + 1) .. Least(i * B, n)
<1> DEFINE d == (k - 1) \div B
<1>1. d \in Nat /\ d * B <= k - 1 /\ k - 1 < d * B + B
  OBVIOUS
<1>2. (d + 1) * B = d * B + B
  BY <1>1
<1>3. d + 1 <= (n + B - 1) \div B
  <2>1. (d + 1) * B <= n + B - 1
    BY <1>1, <1>2
  <2> HIDE DEF d
  <2> QED BY <2>1, <1>1
<1> HIDE DEF d
<1>4. (d + 1) - 1 = d
  BY <1>1
<1>5. k \in (d * B + 1) .. Least((d + 1) * B, n)
  BY <1>1, <1>2 DEF Least
<1>6. d + 1 \in 1 .. ((n + B - 1) \div B)
  BY <1>1, <1>3
<1> QED BY <1>4, <1>5, <1>6 DEF d

\* So many scanned pages to a question: every one of them in one of the questions.
LEMMA BatchedIs ==
  ASSUME NEW S, NEW ps \in Seq(S), IsInjective(ps)
  PROVE  OfScans(Batched(ps), S) /\ \A p : Names(Batched(ps), p) <=> p \in Range(ps)
<1> DEFINE n == Len(ps)
           lo(i) == (i - 1) * BatchSize + 1
           hi(i) == Least(i * BatchSize, n)
           sl(i) == SubSeq(ps, lo(i), hi(i))
           N == (n + BatchSize - 1) \div BatchSize
           q(i) == Ask(IF Len(sl(i)) = 1 THEN "alone" ELSE "batch", sl(i))
<1>1. n \in Nat /\ BatchSize \in Nat /\ BatchSize > 0 /\ DOMAIN ps = 1 .. n
  BY FileAssumption
<1>2. Batched(ps) = [i \in 1 .. N |-> q(i)]
  BY DEF Batched
<1>3. N \in Nat
  BY <1>1
<1> HIDE DEF N, n
<1>4. ASSUME NEW i \in 1 .. N PROVE lo(i) \in 1 .. n /\ hi(i) \in lo(i) .. n
  BY <1>1, ByBatches DEF N
<1> HIDE DEF lo, hi
<1>5. ASSUME NEW i \in 1 .. N
      PROVE  /\ Places(sl(i), S) /\ Len(sl(i)) = hi(i) - lo(i) + 1
             /\ \A x \in DOMAIN sl(i) : x \in 1 .. hi(i) - lo(i) + 1 /\ sl(i)[x] = ps[lo(i) + x - 1]
             /\ \A k \in lo(i) .. hi(i) : ps[k] \in Range(sl(i))
  <2>1. lo(i) \in 1 .. Len(ps) /\ hi(i) \in lo(i) .. Len(ps)
    BY <1>4 DEF n
  <2> QED BY <2>1, SliceIs
<1>6. ASSUME NEW i \in 1 .. N, NEW v \in Range(sl(i)) PROVE \E k \in lo(i) .. hi(i) : v = ps[k]
  <2>1. PICK x \in DOMAIN sl(i) : v = sl(i)[x]
    BY DEF Range
  <2>2. x \in 1 .. hi(i) - lo(i) + 1 /\ v = ps[lo(i) + x - 1]
    BY <2>1, <1>5
  <2>3. lo(i) + x - 1 \in lo(i) .. hi(i)
    BY <2>2, <1>4, <1>1
  <2> QED BY <2>2, <2>3
<1>7. ASSUME NEW i \in 1 .. N, NEW j \in 1 .. N, i < j PROVE hi(i) < lo(j)
  <2>1. i * BatchSize <= (j - 1) * BatchSize /\ i * BatchSize \in Nat /\ (j - 1) * BatchSize \in Nat
    BY <1>1, <1>3, <1>7, BatchesApart
  <2> QED BY <2>1, <1>1 DEF hi, lo, Least
<1>8. ASSUME NEW i \in 1 .. N, NEW j \in 1 .. N, i < j PROVE Range(sl(i)) \cap Range(sl(j)) = {}
  <2> SUFFICES ASSUME NEW v \in Range(sl(i)), v \in Range(sl(j)) PROVE FALSE
    OBVIOUS
  <2>1. PICK k \in lo(i) .. hi(i) : v = ps[k]
    BY <1>6
  <2>2. PICK m \in lo(j) .. hi(j) : v = ps[m]
    BY <1>6
  <2>3. k \in DOMAIN ps /\ m \in DOMAIN ps /\ k < m
    BY <1>1, <1>4, <1>7, <1>8
  <2>4. k # m /\ ps[k] = ps[m]
    BY <2>1, <2>2, <2>3, <1>1
  <2> QED BY <2>3, <2>4 DEF IsInjective
<1>9. ASSUME NEW i \in 1 .. N PROVE q(i).pages = sl(i) /\ (IsAlone(q(i), S) \/ IsBatch(q(i), S))
  <2>1. q(i).pages = sl(i)
    BY DEF Ask
  <2>2. CASE Len(sl(i)) = 1
    <3>1. sl(i) \in Seq(S)
      BY <1>5 DEF Places, IsSeq
    <3>2. sl(i) = <<sl(i)[1]>> /\ sl(i)[1] \in S
      BY <3>1, <2>2, SingleIs
    <3>3. q(i) = Ask("alone", <<sl(i)[1]>>)
      BY <2>2, <3>2
    <3> QED BY <2>1, <3>2, <3>3 DEF IsAlone
  <2>3. CASE Len(sl(i)) # 1
    <3>1. q(i) = Ask("batch", sl(i))
      BY <2>3
    <3> QED BY <2>1, <3>1, <1>5 DEF IsBatch
  <2> QED BY <2>1, <2>2, <2>3
<1> HIDE DEF sl, q
<1>10. IsSeq(Batched(ps)) /\ DOMAIN Batched(ps) = 1 .. N
  <2>1. \A i \in 1 .. N : q(i) \in {q(j) : j \in 1 .. N}
    OBVIOUS
  <2>2. Batched(ps) \in Seq({q(j) : j \in 1 .. N})
    BY <2>1, <1>2, <1>3
  <2> QED BY <2>2, <1>2, SeqIs
<1>11. \A i, j \in 1 .. N : i # j => Range(sl(i)) \cap Range(sl(j)) = {}
  <2> SUFFICES ASSUME NEW i \in 1 .. N, NEW j \in 1 .. N, i # j PROVE Range(sl(i)) \cap Range(sl(j)) = {}
    OBVIOUS
  <2>1. i < j \/ j < i
    BY <1>3
  <2> QED BY <2>1, <1>8
<1>12. OfScans(Batched(ps), S)
  BY <1>2, <1>9, <1>10, <1>11 DEF OfScans
<1>13. ASSUME NEW p \in Range(ps) PROVE Names(Batched(ps), p)
  <2>1. PICK k \in 1 .. n : p = ps[k]
    BY <1>1 DEF Range
  <2>2. PICK i \in 1 .. N : k \in lo(i) .. hi(i)
    BY <1>1, BatchOf DEF N, lo, hi
  <2>3. p \in Range(sl(i))
    BY <2>1, <2>2, <1>5
  <2> QED BY <2>3, <1>2, <1>9, <1>10 DEF Names
<1>14. ASSUME NEW p, Names(Batched(ps), p) PROVE p \in Range(ps)
  <2>1. PICK i \in 1 .. N : p \in Range(sl(i))
    BY <1>14, <1>2, <1>9, <1>10 DEF Names
  <2>2. PICK k \in lo(i) .. hi(i) : p = ps[k]
    BY <2>1, <1>6
  <2>3. k \in DOMAIN ps
    BY <1>1, <1>4
  <2> QED BY <2>2, <2>3 DEF Range
<1> QED BY <1>12, <1>13, <1>14

\* Pages of a batch are asked about alone, all but some.
LEMMA AskAloneIs ==
  ASSUME NEW S, NEW ps, Places(ps, S), NEW T \in SUBSET DOMAIN ps
  PROVE  OfScans(AskAlone(ps, T), S) /\ \A p : Names(AskAlone(ps, T), p) <=> \E x \in DOMAIN ps \ T : p = ps[x]
<1> DEFINE left == DOMAIN ps \ T
           N == Cardinality(left)
           q(k) == Ask("alone", <<ps[InOrder(left)[k]]>>)
<1>1. ps \in Seq(Range(ps)) /\ DOMAIN ps = 1 .. Len(ps) /\ Len(ps) \in Nat
  BY DEF Places, IsSeq
<1>2. left \in SUBSET Nat /\ IsFiniteSet(left)
  <2>1. IsFiniteSet(1 .. Len(ps)) /\ left \in SUBSET (1 .. Len(ps))
    BY <1>1, FS_Interval
  <2> QED BY <2>1, FS_Subset
<1>3. N \in Nat /\ InOrder(left) \in [1 .. N -> left] /\ Range(InOrder(left)) = left /\ IsInjective(InOrder(left))
  BY <1>2, InOrderIs
<1>4. AskAlone(ps, T) = [k \in 1 .. N |-> q(k)]
  BY DEF AskAlone
<1>5. ASSUME NEW k \in 1 .. N
      PROVE  InOrder(left)[k] \in left /\ ps[InOrder(left)[k]] \in S /\ IsAlone(q(k), S)
             /\ Range(q(k).pages) = {ps[InOrder(left)[k]]}
  <2>1. InOrder(left)[k] \in left
    BY <1>3
  <2>2. ps[InOrder(left)[k]] \in S
    BY <2>1, <1>1 DEF Places, Range
  <2> QED BY <2>1, <2>2, AloneIs DEF IsAlone
<1> HIDE DEF left, N
<1>6. IsSeq(AskAlone(ps, T)) /\ DOMAIN AskAlone(ps, T) = 1 .. N
  <2>1. \A i \in 1 .. N : q(i) \in {q(j) : j \in 1 .. N}
    OBVIOUS
  <2> HIDE DEF q
  <2>2. AskAlone(ps, T) \in Seq({q(j) : j \in 1 .. N})
    BY <2>1, <1>4, <1>3
  <2> QED BY <2>2, <1>4, SeqIs
<1>7. \A i, j \in 1 .. N : i # j => ps[InOrder(left)[i]] # ps[InOrder(left)[j]]
  <2> SUFFICES ASSUME NEW i \in 1 .. N, NEW j \in 1 .. N, i # j PROVE ps[InOrder(left)[i]] # ps[InOrder(left)[j]]
    OBVIOUS
  <2>1. InOrder(left)[i] # InOrder(left)[j]
    BY <1>3 DEF IsInjective
  <2>2. InOrder(left)[i] \in DOMAIN ps /\ InOrder(left)[j] \in DOMAIN ps
    BY <1>3 DEF left
  <2> QED BY <2>1, <2>2 DEF Places, IsInjective
<1> HIDE DEF q
<1>75. \A i \in 1 .. N : AskAlone(ps, T)[i] = q(i)
  BY <1>4
<1>8. OfScans(AskAlone(ps, T), S)
  <2>1. \A i, j \in 1 .. N : i # j => Range(q(i).pages) \cap Range(q(j).pages) = {}
    BY <1>5, <1>7
  <2>2. \A i \in 1 .. N : IsAlone(q(i), S)
    BY <1>5
  <2> QED BY <2>1, <2>2, <1>6, <1>75 DEF OfScans
<1>9. ASSUME NEW x \in left PROVE Names(AskAlone(ps, T), ps[x])
  <2>1. PICK k \in 1 .. N : x = InOrder(left)[k]
    BY <1>3 DEF Range
  <2> QED BY <2>1, <1>4, <1>5, <1>6 DEF Names
<1>10. ASSUME NEW p, Names(AskAlone(ps, T), p) PROVE \E x \in left : p = ps[x]
  <2>1. PICK k \in 1 .. N : p \in Range(q(k).pages)
    BY <1>10, <1>4, <1>6 DEF Names
  <2> QED BY <2>1, <1>5
<1> QED BY <1>8, <1>9, <1>10 DEF left

-----------------------------------------------------------------------------
(* What holds while a file is read.                                        *)

\* The whole file is one question; the pages read by themselves, as text and as scans.
Together == IF TextPages # {} THEN ~SplittablePages ELSE Least(layout.pages, DrawnMax) <= TogetherMax
WholeAsk ==
  IF layout = Photo THEN Ask("image", <<0>>)
  ELSE IF TextPages # {} THEN Ask("text", Upto(Least(layout.pages, TextMax)))
  ELSE ScanAsks(Least(layout.pages, DrawnMax))[1]
OwnPages == IF SplittablePages THEN TextPages ELSE {}
Scans == IF TextPages # {} THEN Blanks ELSE IF Together THEN {} ELSE 1 .. Least(layout.pages, DrawnMax)
FilePages == IF layout = Photo THEN {0} ELSE 1 .. layout.pages

IsWhole(q) == Together /\ q = WholeAsk
IsOwn(q)   == \E p \in OwnPages : q = Ask("text", <<p>>)
IsScan(q)  == IsAlone(q, Scans) \/ IsBatch(q, Scans)

\* What is still asked: the whole file first, and alone; and no page twice.
AsksInv ==
  /\ IsSeq(asks)
  /\ \A i \in DOMAIN asks : IsWhole(asks[i]) \/ IsOwn(asks[i]) \/ IsScan(asks[i])
  /\ \A i, j \in DOMAIN asks : i # j => Range(asks[i].pages) \cap Range(asks[j].pages) = {}
  /\ \A i \in DOMAIN asks : IsWhole(asks[i]) => Len(asks) = 1 /\ parts = <<>> /\ reading = "asking"
  /\ \A i \in DOMAIN asks : IsScan(asks[i]) /\ TextPages # {} => reading = "blanks"
  /\ reading \in {"new", "read"} => asks = <<>>

\* A question has one answer.
HeardInv ==
  /\ IsSeq(heard)
  /\ \A h \in DOMAIN heard : IsSeq(heard[h].list) /\ heard[h].list # <<>>
  /\ \A h, g \in DOMAIN heard : heard[h].ask = heard[g].ask => heard[h].list = heard[g].list

\* A row is of a receipt of an answer that was heard, of a page of text, or of a page of a batch.
MadeFrom(d, q, es, at) ==
  /\ d.from = q /\ d.nth \in DOMAIN es
  /\ IF IsSplit(q, es)
     THEN /\ d.page = IF q.how = "pages" THEN FirstPage(es[d.nth]) ELSE at
          /\ d.box = IF q.how = "pages" THEN "none" ELSE es[d.nth].box
     ELSE d.nth = 1 /\ d.page = at /\ d.box = "none"
Drawn(d, q, at) == \E h \in DOMAIN heard : heard[h].ask = q /\ MadeFrom(d, q, heard[h].list, at)
OfWhole(d) == Together /\ Drawn(d, WholeAsk, 0)
OfOwn(d)   == d.page \in OwnPages /\ d.box = "none" /\ d.from = Ask("text", <<d.page>>) /\ d.nth = 1
OfPage(d)  == d.page \in Scans /\ Drawn(d, Ask("image", <<d.page>>), d.page)
OfBatch(d) == d.page \in Scans /\ d.box = "none" /\ d.from.how = "batch"
PartOk(d)  == OfWhole(d) \/ OfOwn(d) \/ OfPage(d) \/ OfBatch(d)

\* Two rows of one page are of one answer, and two of one answer are different receipts of it.
Apart2(d, e) ==
  /\ d.page = e.page => d.from = e.from /\ d.from.how # "batch"
  /\ d.from = e.from => d.nth # e.nth \/ d.from.how = "batch"
PartsInv ==
  /\ IsSeq(parts)
  /\ \A i \in DOMAIN parts : PartOk(parts[i])
  /\ \A i, j \in DOMAIN parts : i # j => Apart2(parts[i], parts[j])
  /\ \A i \in DOMAIN parts : ~Names(asks, parts[i].page)
  /\ reading = "asking" /\ TextPages # {} => \A i \in DOMAIN parts : parts[i].page \notin Blanks
  /\ reading = "new" => parts = <<>>

Covered(p) == \E i \in DOMAIN parts : p \in Range(parts[i].from.pages)
Accounted(p) ==
  \/ p \in said \/ Covered(p) \/ Names(asks, p)
  \/ p \in TextPages /\ ~SplittablePages
  \/ reading = "asking" /\ TextPages # {} /\ p \in Blanks
  \/ parts = <<>> /\ asks = <<>> /\ TextPages = {} /\ reading # "blanks"
AccountInv == reading # "new" => \A p \in FilePages : Accounted(p)

RereadInv == reread.row # 0 => reading = "read" /\ reread.row \in DOMAIN parts /\ RereadIsOwn

FileInv ==
  /\ layout \in Layout /\ reading \in {"new", "asking", "blanks", "read"}
  /\ HeardInv /\ AsksInv /\ PartsInv /\ AccountInv /\ RereadInv

-----------------------------------------------------------------------------
(* The pages of a file.                                                    *)

LEMMA LeastIs ==
  ASSUME NEW m \in Nat, NEW n \in Nat
  PROVE  Least(m, n) \in Nat /\ Least(m, n) <= m /\ Least(m, n) <= n /\ Least(m, n) \in {m, n}
BY DEF Least

LEMMA UptoIs ==
  ASSUME NEW n \in Nat
  PROVE  Upto(n) \in Seq(1 .. n) /\ IsSeq(Upto(n)) /\ IsInjective(Upto(n)) /\ Range(Upto(n)) = 1 .. n /\ Len(Upto(n)) = n
<1>1. Upto(n) \in Seq(1 .. n) /\ Len(Upto(n)) = n
  BY DEF Upto
<1>2. IsInjective(Upto(n)) /\ Range(Upto(n)) = 1 .. n
  BY DEF Upto, IsInjective, Range
<1> QED BY <1>1, <1>2, SeqIs

LEMMA PagesIs ==
  ASSUME layout \in Layout
  PROVE  /\ layout.pages \in Nat /\ layout.typed \subseteq 1 .. layout.pages
         /\ TextMax \in Nat /\ DrawnMax \in Nat /\ TogetherMax \in Nat /\ TextMax >= 1 /\ TogetherMax >= 1 /\ TogetherMax <= DrawnMax
         /\ TextPages \subseteq 1 .. layout.pages /\ IsFiniteSet(TextPages) /\ TextPages \in SUBSET Nat
         /\ Blanks \subseteq 1 .. layout.pages /\ IsFiniteSet(Blanks) /\ Blanks \in SUBSET Nat
         /\ Blanks \cap TextPages = {}
         /\ \A p \in 1 .. layout.pages : p \in TextPages \/ p \in Blanks \/ p \in Beyond(TextMax)
         /\ layout = Photo => TextPages = {} /\ layout.pages = 0
         /\ SplittablePages => TextPages # {}
<1>1. layout.pages \in Nat /\ layout.typed \subseteq 1 .. layout.pages
  BY FileAssumption
<1>2. /\ TextMax \in Nat /\ DrawnMax \in Nat /\ TogetherMax \in Nat
      /\ TextMax >= 1 /\ TogetherMax >= 1 /\ TogetherMax <= DrawnMax
  BY FileAssumption
<1>3. Least(layout.pages, TextMax) \in Nat /\ Least(layout.pages, TextMax) <= layout.pages
      /\ Least(layout.pages, TextMax) <= TextMax /\ Least(layout.pages, TextMax) \in {layout.pages, TextMax}
  BY <1>1, <1>2, LeastIs
<1>4. TextPages \subseteq 1 .. layout.pages /\ Blanks \subseteq 1 .. layout.pages
  BY <1>1, <1>3 DEF TextPages, Blanks
<1>5. IsFiniteSet(1 .. layout.pages)
  BY <1>1, FS_Interval
<1>6. IsFiniteSet(TextPages) /\ IsFiniteSet(Blanks)
  BY <1>4, <1>5, FS_Subset
<1>7. Blanks \cap TextPages = {}
  BY DEF TextPages, Blanks
<1>8. ASSUME NEW p \in 1 .. layout.pages PROVE p \in TextPages \/ p \in Blanks \/ p \in Beyond(TextMax)
  BY <1>1, <1>2, <1>3 DEF TextPages, Blanks, Beyond
<1>9. layout = Photo => TextPages = {} /\ layout.pages = 0
  BY DEF Photo, TextPages
<1>10. SplittablePages => TextPages # {}
  BY FS_EmptySet DEF SplittablePages
<1>11. TextPages \in SUBSET Nat /\ Blanks \in SUBSET Nat
  BY <1>4
<1> QED BY <1>1, <1>2, <1>4, <1>6, <1>7, <1>8, <1>9, <1>10, <1>11

\* The three ways a page goes to the reader exclude one another.
LEMMA WaysIs ==
  ASSUME layout \in Layout
  PROVE  /\ Scans \subseteq 1 .. layout.pages /\ OwnPages \subseteq 1 .. layout.pages /\ Scans \cap OwnPages = {}
         /\ IsFiniteSet(Scans) /\ Scans \in SUBSET Nat
         /\ Together => OwnPages = {} /\ (Scans # {} => TextPages # {})
         /\ OwnPages # {} => TextPages # {}
         /\ TextPages # {} => Scans = Blanks
         /\ layout = Photo => Together
<1>1. Least(layout.pages, DrawnMax) \in Nat /\ Least(layout.pages, DrawnMax) <= layout.pages
  BY PagesIs, LeastIs
<1>2. Scans \subseteq 1 .. layout.pages
  BY <1>1, PagesIs DEF Scans
<1>25. layout.pages \in Nat
  BY PagesIs
<1>3. IsFiniteSet(1 .. layout.pages) /\ layout.pages \in Nat
  BY <1>25, FS_Interval
<1>4. IsFiniteSet(Scans) /\ Scans \in SUBSET Nat
  <2>1. Scans \in SUBSET (1 .. layout.pages) /\ 1 .. layout.pages \subseteq Nat
    BY <1>2, <1>3
  <2> QED BY <2>1, <1>3, FS_Subset
<1>5. OwnPages \subseteq 1 .. layout.pages /\ Scans \cap OwnPages = {}
  BY PagesIs DEF OwnPages, Scans
<1>6. Together => OwnPages = {} /\ (Scans # {} => TextPages # {})
  BY PagesIs DEF Together, OwnPages, Scans
<1>7. layout = Photo => Together
  <2> SUFFICES ASSUME layout = Photo PROVE Together
    OBVIOUS
  <2>1. layout.pages = 0 /\ TextPages = {}
    BY PagesIs
  <2>2. Least(0, DrawnMax) = 0
    BY PagesIs DEF Least
  <2> QED BY <2>1, <2>2, PagesIs DEF Together
<1> QED BY <1>2, <1>4, <1>5, <1>6, <1>7, PagesIs DEF OwnPages, Scans

\* The one question of a file that is read together.
LEMMA WholeIs ==
  ASSUME layout \in Layout, Together
  PROVE  /\ WholeAsk.how \in {"image", "pages", "text"} /\ (WholeAsk.how = "text" <=> TextPages # {})
         /\ WholeAsk = Ask(WholeAsk.how, WholeAsk.pages) /\ IsSeq(WholeAsk.pages)
         /\ WholeAsk.how = "text" => WholeAsk.pages = Upto(Least(layout.pages, TextMax))
         /\ WholeAsk.how = "pages" => /\ layout # Photo /\ WholeAsk.pages = Upto(Least(layout.pages, DrawnMax))
                                      /\ layout.pages # 1 /\ Least(layout.pages, DrawnMax) <= TogetherMax
         /\ WholeAsk.how = "image" => \/ layout = Photo /\ WholeAsk.pages = <<0>>
                                      \/ layout # Photo /\ WholeAsk.pages = <<1>> /\ TextPages = {} /\ layout.pages >= 1
                                         /\ Least(layout.pages, DrawnMax) = 1
         /\ (layout # Photo /\ TextPages = {}) =>
              /\ WholeAsk = ScanAsks(Least(layout.pages, DrawnMax))[1]
              /\ ScanAsks(Least(layout.pages, DrawnMax)) = <<WholeAsk>>
              /\ WholeAsk = ScanAsks(Least(layout.pages, TogetherMax))[1]
<1>1. CASE layout = Photo
  <2>1. TextPages = {} /\ WholeAsk = Ask("image", <<0>>)
    BY <1>1, PagesIs DEF WholeAsk
  <2>2. IsSeq(<<0>>)
    <3>1. <<0>> \in Seq(Nat)
      OBVIOUS
    <3> QED BY <3>1, SeqIs
  <2> QED BY <1>1, <2>1, <2>2 DEF Ask
<1>2. CASE layout # Photo /\ TextPages # {}
  <2>1. WholeAsk = Ask("text", Upto(Least(layout.pages, TextMax)))
    BY <1>2 DEF WholeAsk
  <2>2. IsSeq(Upto(Least(layout.pages, TextMax)))
    BY PagesIs, LeastIs, UptoIs
  <2> QED BY <1>2, <2>1, <2>2 DEF Ask
<1>3. CASE layout # Photo /\ TextPages = {}
  <2> DEFINE n == Least(layout.pages, DrawnMax)
             m == Least(layout.pages, TogetherMax)
  <2>1. n \in Nat /\ n <= layout.pages /\ n <= TogetherMax /\ layout.pages \in Nat
    BY <1>3, PagesIs, LeastIs DEF Together
  <2>2. m = n /\ (layout.pages = 1 => n = 1)
    BY <2>1, PagesIs DEF Least
  <2>3. ScanAsks(n) = IF n = 1 THEN <<Ask("image", <<1>>)>> ELSE <<Ask("pages", Upto(n))>>
    BY <2>1, PagesIs DEF ScanAsks
  <2>4. WholeAsk = IF n = 1 THEN Ask("image", <<1>>) ELSE Ask("pages", Upto(n))
    BY <2>3, <1>3 DEF WholeAsk
  <2>5. ScanAsks(n) = <<WholeAsk>> /\ WholeAsk = ScanAsks(n)[1]
    BY <2>3, <2>4
  <2>6. IsSeq(Upto(n)) /\ IsSeq(<<1>>)
    <3>1. <<1>> \in Seq(Nat)
      OBVIOUS
    <3> QED BY <3>1, <2>1, SeqIs, UptoIs
  <2>7. CASE n = 1
    <3>1. WholeAsk = Ask("image", <<1>>)
      BY <2>4, <2>7
    <3> QED BY <3>1, <1>3, <2>1, <2>2, <2>5, <2>6, <2>7 DEF Ask
  <2>8. CASE n # 1
    <3>1. WholeAsk = Ask("pages", Upto(n))
      BY <2>4, <2>8
    <3> QED BY <3>1, <1>3, <2>1, <2>2, <2>5, <2>6, <2>8 DEF Ask
  <2> QED BY <2>7, <2>8
<1> QED BY <1>1, <1>2, <1>3

\* A question of a whole file is none of a page's.
LEMMA AsksDiffer ==
  ASSUME layout \in Layout, NEW q
  PROVE  /\ IsWhole(q) => ~IsOwn(q) /\ ~IsScan(q) /\ q.how \in {"image", "pages", "text"}
         /\ IsOwn(q) => ~IsScan(q) /\ q.how = "text" /\ SplittablePages
         /\ IsScan(q) => q.how \in {"alone", "batch"}
         /\ IsAlone(q, Scans) => q.how = "alone"
         /\ IsBatch(q, Scans) => q.how = "batch"
<1>1. IsAlone(q, Scans) => q.how = "alone"
  BY DEF IsAlone, Ask
<1>2. IsBatch(q, Scans) => q.how = "batch"
  <2> SUFFICES ASSUME q = Ask("batch", q.pages) PROVE q.how = "batch"
    BY DEF IsBatch
  <2>1. Ask("batch", q.pages).how = "batch"
    BY DEF Ask
  <2> QED BY <2>1
<1>3. IsOwn(q) => q.how = "text" /\ OwnPages # {}
  BY DEF IsOwn, Ask
<1>4. IsWhole(q) => q.how \in {"image", "pages", "text"} /\ OwnPages = {}
  BY WholeIs, WaysIs DEF IsWhole
<1> QED BY <1>1, <1>2, <1>3, <1>4 DEF IsScan, OwnPages

-----------------------------------------------------------------------------
(* Answers, and the receipts of one.                                       *)

LEMMA FirstPageIs ==
  ASSUME NEW r, r.pages \in SUBSET Nat, r.pages # {} PROVE FirstPage(r) \in r.pages
BY LeastOfSome DEF FirstPage

LEMMA EmptyIs == IsSeq(<<>>) /\ DOMAIN <<>> = {} /\ Range(<<>>) = {}
<1>1. <<>> \in Seq({})
  OBVIOUS
<1>2. DOMAIN <<>> = {}
  OBVIOUS
<1> QED BY <1>1, <1>2, SeqIs DEF Range

LEMMA SomeIs ==
  ASSUME NEW es, IsSeq(es)
  PROVE  Len(es) \in Nat /\ DOMAIN es = 1 .. Len(es) /\ (es # <<>> => 1 \in DOMAIN es /\ Len(es) >= 1)
<1>1. es \in Seq(Range(es))
  BY DEF IsSeq
<1> QED BY <1>1

\* Receipts told apart lie on different pages, or on different parts of the image.
LEMMA SplitApart ==
  ASSUME NEW q, NEW es, IsSplit(q, es), NEW a \in DOMAIN es
  PROVE  /\ q.how \in {"image", "pages"}
         /\ q.how = "image" => es[a].box # "none" /\ \A b \in DOMAIN es : a # b => es[a].box # es[b].box
         /\ q.how = "pages" => /\ FirstPage(es[a]) \in es[a].pages /\ FirstPage(es[a]) \in 1 .. Len(q.pages)
                               /\ \A b \in DOMAIN es : a # b => /\ FirstPage(es[a]) # FirstPage(es[b])
                                                               /\ es[a].pages \cap es[b].pages = {}
<1>1. q.how \in {"image", "pages"}
  BY DEF IsSplit
<1>2. q.how = "image" => es[a].box # "none" /\ \A b \in DOMAIN es : a # b => es[a].box # es[b].box
  BY DEF IsSplit, Splittable, Overlaps
<1>3. CASE q.how = "pages"
  <2>1. SeparateDocuments(es, Len(q.pages))
    BY <1>3 DEF IsSplit
  <2>2. \A b \in DOMAIN es : es[b].pages # {} /\ es[b].pages \subseteq 1 .. Len(q.pages)
    BY <2>1 DEF SeparateDocuments
  <2>3. \A b \in DOMAIN es : a # b => es[a].pages \cap es[b].pages = {}
    BY <2>1 DEF SeparateDocuments
  <2>4. \A b \in DOMAIN es : es[b].pages \in SUBSET Nat
    BY <2>2
  <2>5. \A b \in DOMAIN es : FirstPage(es[b]) \in es[b].pages
    BY <2>2, <2>4, FirstPageIs
  <2> QED BY <1>3, <2>2, <2>3, <2>5
<1> QED BY <1>1, <1>2, <1>3

\* What is made of an answer: of each receipt in it once, if they can be told apart.
EachOnce(made, q, es, at) ==
  /\ IsSeq(made) /\ (es # <<>> => 1 \in DOMAIN made) /\ (es = <<>> => made = <<>>)
  /\ \A k \in DOMAIN made : MadeFrom(made[k], q, es, at) /\ (q.how # "pages" => made[k].page = at)
  /\ \A k, l \in DOMAIN made : k # l => made[k].nth # made[l].nth
LEMMA MadeIs == ASSUME NEW q, NEW es, IsSeq(es), NEW at PROVE EachOnce(FromParsed(q, es, at), q, es, at)
<1> USE DEF EachOnce
<1> DEFINE made == FromParsed(q, es, at)
           one == Made(q, at, "none", es[1], 1)
           each(k) == Made(q, IF q.how = "pages" THEN FirstPage(es[k]) ELSE at,
                           IF q.how = "pages" THEN "none" ELSE es[k].box, es[k], k)
<1>1. CASE es = <<>>
  <2>1. made = <<>>
    BY <1>1 DEF FromParsed
  <2> QED BY <2>1, <1>1, EmptyIs
<1>2. CASE es # <<>> /\ ~IsSplit(q, es)
  <2>1. made = <<one>>
    BY <1>2 DEF FromParsed
  <2>2. 1 \in DOMAIN es
    BY <1>2, SomeIs
  <2>3. MadeFrom(one, q, es, at) /\ one.page = at
    BY <1>2, <2>2 DEF MadeFrom, Made
  <2> HIDE DEF one
  <2>4. <<one>> \in Seq({one}) /\ DOMAIN <<one>> = {1} /\ <<one>>[1] = one
    OBVIOUS
  <2>5. IsSeq(<<one>>)
    BY <2>4, SeqIs
  <2> HIDE DEF made
  <2> QED BY <2>1, <2>3, <2>4, <2>5, <1>2 DEF made
<1>3. CASE es # <<>> /\ IsSplit(q, es)
  <2>1. made = [k \in DOMAIN es |-> each(k)]
    BY <1>3 DEF FromParsed
  <2>2. \A k \in DOMAIN es : MadeFrom(each(k), q, es, at) /\ each(k).nth = k /\ (q.how # "pages" => each(k).page = at)
    BY <1>3 DEF MadeFrom, Made
  <2> HIDE DEF each
  <2>3. DOMAIN es = 1 .. Len(es) /\ Len(es) \in Nat /\ 1 \in DOMAIN es
    BY <1>3, SomeIs
  <2>4. made \in Seq({each(k) : k \in DOMAIN es})
    BY <2>1, <2>3
  <2>5. IsSeq(made) /\ DOMAIN made = DOMAIN es
    BY <2>4, <2>1, SeqIs
  <2> HIDE DEF made
  <2> QED BY <2>1, <2>2, <2>3, <2>5, <1>3 DEF made
<1> QED BY <1>1, <1>2, <1>3

\* The place of a receipt of an answer tells which it is.
LEMMA PlaceTells ==
  ASSUME NEW q, NEW es, NEW at, NEW d, NEW e, MadeFrom(d, q, es, at), MadeFrom(e, q, es, at), d.nth # e.nth
  PROVE  <<d.page, d.box>> # <<e.page, e.box>>
<1>1. IsSplit(q, es) /\ d.nth \in DOMAIN es /\ e.nth \in DOMAIN es
  BY DEF MadeFrom
<1>2. q.how \in {"image", "pages"}
  BY <1>1, SplitApart
<1>3. CASE q.how = "image"
  <2>1. d.box = es[d.nth].box /\ e.box = es[e.nth].box
    BY <1>1, <1>3 DEF MadeFrom
  <2> QED BY <2>1, <1>1, <1>3, SplitApart
<1>4. CASE q.how = "pages"
  <2>1. d.page = FirstPage(es[d.nth]) /\ e.page = FirstPage(es[e.nth])
    BY <1>1, <1>4 DEF MadeFrom
  <2> QED BY <2>1, <1>1, <1>4, SplitApart
<1> QED BY <1>2, <1>3, <1>4

LEMMA RowsStandApart == ASSUME layout \in Layout, HeardInv, PartsInv PROVE PlacesApart
<1> SUFFICES ASSUME NEW i \in DOMAIN parts, NEW j \in DOMAIN parts, i # j,
                    parts[i].page = parts[j].page, parts[i].box = parts[j].box
             PROVE  FALSE
  BY DEF PlacesApart
<1> DEFINE d == parts[i]
           e == parts[j]
<1>1. Apart2(d, e) /\ PartOk(d) /\ PartOk(e) /\ d.page = e.page /\ d.box = e.box
  BY DEF PartsInv
<1> HIDE DEF d, e
<1>2. d.from = e.from /\ d.from.how # "batch" /\ d.nth # e.nth
  BY <1>1 DEF Apart2
<1>3. ~OfBatch(d) /\ ~OfBatch(e)
  BY <1>2 DEF OfBatch
<1>4. ASSUME NEW q, NEW at, Drawn(d, q, at), Drawn(e, q, at) PROVE FALSE
  <2>1. PICK h \in DOMAIN heard : heard[h].ask = q /\ MadeFrom(d, q, heard[h].list, at)
    BY <1>4 DEF Drawn
  <2>2. PICK g \in DOMAIN heard : heard[g].ask = q /\ MadeFrom(e, q, heard[g].list, at)
    BY <1>4 DEF Drawn
  <2>3. heard[h].list = heard[g].list
    BY <2>1, <2>2 DEF HeardInv
  <2> QED BY <2>1, <2>2, <2>3, <1>1, <1>2, PlaceTells
<1>5. d.page \in OwnPages => FALSE
  <2> SUFFICES ASSUME d.page \in OwnPages PROVE FALSE
    OBVIOUS
  <2>1. ~Together /\ d.page \notin Scans
    BY WaysIs
  <2>2. OfOwn(d) /\ OfOwn(e)
    BY <2>1, <1>1, <1>3 DEF PartOk, OfWhole, OfPage
  <2> QED BY <2>2, <1>2 DEF OfOwn
<1>6. ~OfOwn(d) /\ ~OfOwn(e)
  BY <1>1, <1>5 DEF OfOwn
<1>7. CASE OfPage(d) /\ OfPage(e)
  BY <1>7, <1>1, <1>4 DEF OfPage
<1>8. CASE OfWhole(d) /\ OfWhole(e)
  BY <1>8, <1>4 DEF OfWhole
<1>9. ASSUME NEW a, NEW b, OfWhole(a), OfPage(b), a.from = b.from PROVE FALSE
  <2>1. a.from = WholeAsk /\ Together
    BY <1>9 DEF OfWhole, Drawn, MadeFrom
  <2>2. b.from = Ask("image", <<b.page>>) /\ Scans # {}
    BY <1>9 DEF OfPage, Drawn, MadeFrom
  <2>3. b.from.how = "image"
    BY <2>2 DEF Ask
  <2>4. TextPages # {} /\ WholeAsk.how = "text"
    BY <2>1, <2>2, WaysIs, WholeIs
  <2> QED BY <2>1, <2>3, <2>4, <1>9
<1> QED BY <1>1, <1>2, <1>3, <1>6, <1>7, <1>8, <1>9 DEF PartOk

\* An answer is as it was before, or the reader is out of reach.
LEMMA MayIs ==
  ASSUME HeardInv, NEW q, NEW es \in May(q)
  PROVE  IsSeq(es) /\ \A h \in DOMAIN heard : heard[h].ask = q => es = <<>> \/ es = heard[h].list
<1>1. \A h \in DOMAIN heard : heard[h].ask = q => h \in HeardOf(q)
  BY DEF HeardOf
<1>2. CASE es = <<>>
  BY <1>2, EmptyIs
<1>3. CASE HeardOf(q) # {} /\ es \in {heard[i].list : i \in HeardOf(q)}
  <2>1. PICK i \in DOMAIN heard : heard[i].ask = q /\ es = heard[i].list
    BY <1>3 DEF HeardOf
  <2> QED BY <2>1 DEF HeardInv
<1>4. CASE HeardOf(q) = {} /\ es \in Readable(q)
  <2>1. \/ \E S : \E e \in S : es = <<e>>
        \/ \E S : \E e, f \in S : es = <<e, f>>
    BY <1>4 DEF Readable, Lists
  <2>2. ASSUME NEW S, NEW e \in S, NEW f \in S PROVE IsSeq(<<e>>) /\ IsSeq(<<e, f>>)
    <3>1. <<e>> \in Seq(S) /\ <<e, f>> \in Seq(S)
      OBVIOUS
    <3> QED BY <3>1, SeqIs
  <2> QED BY <2>1, <2>2, <1>1, <1>4
<1> QED BY <1>2, <1>3, <1>4 DEF May

LEMMA HeardKeeps ==
  ASSUME HeardInv, NEW q, NEW es \in May(q), Hears(q, es)
  PROVE  /\ HeardInv'
         /\ \A h \in DOMAIN heard : h \in DOMAIN heard' /\ heard'[h] = heard[h]
         /\ es # <<>> => \E h \in DOMAIN heard' : heard'[h].ask = q /\ heard'[h].list = es
<1>1. IsSeq(es)
  BY MayIs
<1>2. CASE es # <<>> /\ HeardOf(q) = {}
  <2> DEFINE new == [ask |-> q, list |-> es]
  <2>1. heard' = Append(heard, new)
    BY <1>2 DEF Hears
  <2>2. new.ask = q /\ new.list = es
    OBVIOUS
  <2> HIDE DEF new
  <2>3. heard \in Seq(Range(heard) \cup {new})
    BY DEF HeardInv, IsSeq
  <2>4. heard' \in Seq(Range(heard) \cup {new}) /\ DOMAIN heard' = 1 .. Len(heard) + 1 /\ Len(heard) \in Nat
        /\ DOMAIN heard = 1 .. Len(heard)
    BY <2>1, <2>3
  <2>5. heard'[Len(heard) + 1] = new /\ \A h \in 1 .. Len(heard) : heard'[h] = heard[h]
    BY <2>1, <2>3
  <2>6. IsSeq(heard')
    BY <2>4, SeqIs
  <2>7. \A h \in DOMAIN heard : heard[h].ask # q
    BY <1>2 DEF HeardOf
  <2>8. \A h \in DOMAIN heard' : (h = Len(heard) + 1 /\ heard'[h] = new) \/ (h \in DOMAIN heard /\ heard'[h] = heard[h])
    BY <2>4, <2>5
  <2>9. HeardInv'
    BY <2>2, <2>6, <2>7, <2>8, <1>1, <1>2 DEF HeardInv
  <2>10. Len(heard) + 1 \in DOMAIN heard'
    BY <2>4
  <2> QED BY <2>2, <2>4, <2>5, <2>8, <2>9, <2>10
<1>3. CASE ~(es # <<>> /\ HeardOf(q) = {})
  <2>1. heard' = heard
    BY <1>3 DEF Hears
  <2>2. HeardInv'
    BY <2>1 DEF HeardInv
  <2>3. ASSUME es # <<>> PROVE \E h \in DOMAIN heard : heard[h].ask = q /\ heard[h].list = es
    <3>1. PICK h \in DOMAIN heard : heard[h].ask = q
      BY <2>3, <1>3 DEF HeardOf
    <3> QED BY <3>1, <2>3, MayIs
  <2> QED BY <2>1, <2>2, <2>3
<1> QED BY <1>2, <1>3

-----------------------------------------------------------------------------
(* One step: questions answered, rows added.                               *)

Grew == UNCHANGED layout /\ \A h \in DOMAIN heard : h \in DOMAIN heard' /\ heard'[h] = heard[h]

LEMMA LayoutKeeps ==
  ASSUME UNCHANGED layout
  PROVE  /\ Together' = Together /\ WholeAsk' = WholeAsk /\ OwnPages' = OwnPages /\ Scans' = Scans /\ FilePages' = FilePages
         /\ TextPages' = TextPages /\ Blanks' = Blanks /\ SplittablePages' = SplittablePages
         /\ \A q : IsWhole(q)' = IsWhole(q) /\ IsOwn(q)' = IsOwn(q) /\ IsScan(q)' = IsScan(q)
<1>1. TextPages' = TextPages
  BY DEF TextPages
<1>2. Blanks' = Blanks
  BY DEF Blanks
<1>3. SplittablePages' = SplittablePages
  BY <1>1 DEF SplittablePages
<1>4. Together' = Together
  BY <1>1, <1>3 DEF Together
<1>5. WholeAsk' = WholeAsk
  BY <1>1 DEF WholeAsk
<1>6. OwnPages' = OwnPages
  BY <1>1, <1>3 DEF OwnPages
<1>7. Scans' = Scans
  BY <1>1, <1>2, <1>4 DEF Scans
<1>8. \A q : IsWhole(q)' = IsWhole(q) /\ IsOwn(q)' = IsOwn(q) /\ IsScan(q)' = IsScan(q)
  BY <1>4, <1>5, <1>6, <1>7 DEF IsWhole, IsOwn, IsScan
<1> QED BY <1>1, <1>2, <1>3, <1>4, <1>5, <1>6, <1>7, <1>8 DEF FilePages

LEMMA PartKeeps ==
  ASSUME Grew, NEW d
  PROVE  /\ \A q, at : Drawn(d, q, at) => Drawn(d, q, at)'
         /\ OfWhole(d) => OfWhole(d)'
         /\ OfOwn(d) <=> OfOwn(d)'
         /\ OfPage(d) => OfPage(d)'
         /\ OfBatch(d) <=> OfBatch(d)'
         /\ PartOk(d) => PartOk(d)'
<1>1. UNCHANGED layout
  BY DEF Grew
<1>2. ASSUME NEW q, NEW at, Drawn(d, q, at) PROVE Drawn(d, q, at)'
  <2>1. PICK h \in DOMAIN heard : heard[h].ask = q /\ MadeFrom(d, q, heard[h].list, at)
    BY <1>2 DEF Drawn
  <2>2. h \in DOMAIN heard' /\ heard'[h] = heard[h]
    BY DEF Grew
  <2> QED BY <2>1, <2>2 DEF Drawn
<1>3. OfWhole(d) => OfWhole(d)'
  <2> SUFFICES ASSUME OfWhole(d) PROVE OfWhole(d)'
    OBVIOUS
  <2>1. Together /\ Drawn(d, WholeAsk, 0)
    BY DEF OfWhole
  <2>2. \A q : q = WholeAsk => Drawn(d, q, 0)'
    BY <2>1, <1>2
  <2>3. Together' /\ WholeAsk' = WholeAsk
    BY <2>1, <1>1, LayoutKeeps
  <2>4. Drawn(d, WholeAsk, 0)'
    BY <2>2, <2>3 DEF Drawn
  <2> QED BY <2>3, <2>4 DEF OfWhole
<1>4. OfOwn(d) <=> OfOwn(d)'
  BY <1>1, LayoutKeeps DEF OfOwn
<1>5. OfPage(d) => OfPage(d)'
  BY <1>1, <1>2, LayoutKeeps DEF OfPage
<1>6. OfBatch(d) <=> OfBatch(d)'
  BY <1>1, LayoutKeeps DEF OfBatch
<1> QED BY <1>2, <1>3, <1>4, <1>5, <1>6 DEF PartOk

\* What a row was made from tells the page of a row that is not of the whole file.
ByPage(e) == \/ e.page \in OwnPages /\ e.from = Ask("text", <<e.page>>)
             \/ e.page \in Scans /\ e.from = Ask("image", <<e.page>>)
LEMMA FromTellsPage ==
  ASSUME layout \in Layout, NEW d, NEW e, PartOk(d), ByPage(e), d.from = e.from
  PROVE  d.page = e.page
<1> DEFINE byText  == e.page \in OwnPages /\ e.from = Ask("text", <<e.page>>)
           byScan == e.page \in Scans /\ e.from = Ask("image", <<e.page>>)
<1>0. byText \/ byScan
  BY DEF ByPage
<1>1. byText => e.from.how = "text" /\ OwnPages # {} /\ e.from.pages = <<e.page>>
  BY DEF Ask
<1>2. byScan => e.from.how = "image" /\ Scans # {} /\ e.from.pages = <<e.page>>
  BY DEF Ask
<1> HIDE DEF byText, byScan
<1>3. CASE OfWhole(d)
  <2>1. d.from = WholeAsk /\ Together
    BY <1>3 DEF OfWhole, Drawn, MadeFrom
  <2>2. ~byText
    BY <2>1, <1>1, WaysIs
  <2>3. TextPages # {} /\ WholeAsk.how = "text"
    BY <2>1, <2>2, <1>0, <1>2, WaysIs, WholeIs
  <2> QED BY <2>1, <2>2, <2>3, <1>0, <1>2
<1>4. CASE OfOwn(d)
  <2>1. d.from.how = "text" /\ d.from.pages = <<d.page>>
    BY <1>4 DEF OfOwn, Ask
  <2>2. <<d.page>> = <<e.page>>
    BY <2>1, <1>0, <1>1, <1>2
  <2>3. <<d.page>>[1] = d.page /\ <<e.page>>[1] = e.page
    OBVIOUS
  <2> QED BY <2>2, <2>3
<1>5. CASE OfPage(d)
  <2>1. d.from.how = "image" /\ d.from.pages = <<d.page>>
    BY <1>5 DEF OfPage, Drawn, MadeFrom, Ask
  <2>2. <<d.page>> = <<e.page>>
    BY <2>1, <1>0, <1>1, <1>2
  <2>3. <<d.page>>[1] = d.page /\ <<e.page>>[1] = e.page
    OBVIOUS
  <2> QED BY <2>2, <2>3
<1>6. CASE OfBatch(d)
  BY <1>6, <1>0, <1>1, <1>2 DEF OfBatch
<1> QED BY <1>3, <1>4, <1>5, <1>6 DEF PartOk

\* The first question answered by rows of its pages, or by questions about the others of them.
LEMMA Grows ==
  ASSUME FileInv, Grew, HeardInv', asks # <<>>, ~IsWhole(Head(asks)),
         reading \in {"asking", "blanks"}, UNCHANGED reading,
         NEW made, NEW more, IsSeq(made), IsSeq(more),
         asks' = more \o Tail(asks), parts' = parts \o made,
         \A d \in Range(made) : /\ d.page \in Range(Head(asks).pages) /\ ~Names(more, d.page)
                                /\ OfOwn(d) \/ OfPage(d)' \/ OfBatch(d),
         \A i, j \in DOMAIN made : i # j => Apart2(made[i], made[j]),
         OfScans(more, Scans), more # <<>> => IsScan(Head(asks)),
         \A i \in DOMAIN more : Range(more[i].pages) \subseteq Range(Head(asks).pages)
  PROVE  AsksInv' /\ PartsInv'
<1> DEFINE q == Head(asks)
           left == Tail(asks)
<1>1. UNCHANGED layout /\ layout \in Layout /\ AsksInv /\ PartsInv
  BY DEF Grew, FileInv
<1>2. IsSeq(left) /\ q = asks[1] /\ 1 \in DOMAIN asks
      /\ \A i \in DOMAIN left : i \in Nat /\ i >= 1 /\ i + 1 \in DOMAIN asks /\ left[i] = asks[i + 1]
  BY <1>1, TailIs DEF AsksInv
<1>3. /\ IsSeq(asks') /\ DOMAIN asks' = 1 .. Len(asks') /\ DOMAIN more = 1 .. Len(more) /\ Len(more) \in Nat
      /\ \A i \in DOMAIN asks' : (i \in DOMAIN more /\ asks'[i] = more[i])
                                 \/ (i - Len(more) \in DOMAIN left /\ asks'[i] = left[i - Len(more)])
  BY <1>2, Joins
<1>4. /\ IsSeq(parts') /\ DOMAIN parts' = 1 .. Len(parts') /\ DOMAIN parts = 1 .. Len(parts) /\ Len(parts) \in Nat
      /\ DOMAIN made = 1 .. Len(made)
      /\ \A i \in DOMAIN parts' : (i \in DOMAIN parts /\ parts'[i] = parts[i])
                                  \/ (i - Len(parts) \in DOMAIN made /\ parts'[i] = made[i - Len(parts)])
  BY <1>1, Joins DEF PartsInv
<1>5. \A i \in DOMAIN left : /\ IsOwn(left[i]) \/ IsScan(left[i])
                             /\ Range(left[i].pages) \cap Range(q.pages) = {}
  <2> SUFFICES ASSUME NEW i \in DOMAIN left PROVE (IsOwn(left[i]) \/ IsScan(left[i])) /\ Range(left[i].pages) \cap Range(q.pages) = {}
    OBVIOUS
  <2>1. i + 1 \in DOMAIN asks /\ left[i] = asks[i + 1] /\ i + 1 # 1
    BY <1>2
  <2>2. ~IsWhole(left[i])
    <3>1. SUFFICES ASSUME IsWhole(asks[i + 1]) PROVE FALSE
      BY <2>1
    <3>2. Len(asks) = 1
      BY <3>1, <2>1, <1>1 DEF AsksInv
    <3>3. asks \in Seq(Range(asks))
      BY <1>1 DEF AsksInv, IsSeq
    <3>4. DOMAIN asks = {1}
      BY <3>2, <3>3
    <3> QED BY <3>4, <2>1
  <2> QED BY <2>1, <2>2, <1>1, <1>2 DEF AsksInv
<1>6. \A i, j \in DOMAIN left : i # j => Range(left[i].pages) \cap Range(left[j].pages) = {}
  <2> SUFFICES ASSUME NEW i \in DOMAIN left, NEW j \in DOMAIN left, i # j PROVE Range(left[i].pages) \cap Range(left[j].pages) = {}
    OBVIOUS
  <2>1. i + 1 # j + 1 /\ i + 1 \in DOMAIN asks /\ j + 1 \in DOMAIN asks /\ left[i] = asks[i + 1] /\ left[j] = asks[j + 1]
    BY <1>2
  <2> QED BY <2>1, <1>1 DEF AsksInv
<1>7. \A i \in DOMAIN left : IsScan(left[i]) /\ TextPages # {} => reading = "blanks"
  BY <1>1, <1>2 DEF AsksInv
<1>8. more # <<>> /\ TextPages # {} => reading = "blanks"
  BY <1>1, <1>2 DEF AsksInv
<1> HIDE DEF left
<1>9. \A i \in DOMAIN more : IsScan(more[i]) /\ more # <<>>
  <2>1. more = <<>> => DOMAIN more = {}
    BY EmptyIs
  <2> QED BY <2>1 DEF OfScans, IsScan
<1>10. \A i \in DOMAIN asks' : IsOwn(asks'[i]) \/ IsScan(asks'[i])
  BY <1>3, <1>5, <1>9
<1>11. \A i, j \in DOMAIN asks' : i # j => Range(asks'[i].pages) \cap Range(asks'[j].pages) = {}
  <2> SUFFICES ASSUME NEW i \in DOMAIN asks', NEW j \in DOMAIN asks', i # j PROVE Range(asks'[i].pages) \cap Range(asks'[j].pages) = {}
    OBVIOUS
  <2>1. CASE i \in DOMAIN more /\ asks'[i] = more[i] /\ j \in DOMAIN more /\ asks'[j] = more[j]
    BY <2>1 DEF OfScans
  <2>2. CASE i - Len(more) \in DOMAIN left /\ asks'[i] = left[i - Len(more)] /\ j - Len(more) \in DOMAIN left /\ asks'[j] = left[j - Len(more)]
    <3>1. i - Len(more) # j - Len(more)
      BY <1>3
    <3> QED BY <3>1, <2>2, <1>6
  <2>3. CASE i \in DOMAIN more /\ asks'[i] = more[i] /\ j - Len(more) \in DOMAIN left /\ asks'[j] = left[j - Len(more)]
    BY <2>3, <1>5
  <2>4. CASE i - Len(more) \in DOMAIN left /\ asks'[i] = left[i - Len(more)] /\ j \in DOMAIN more /\ asks'[j] = more[j]
    BY <2>4, <1>5
  <2> QED BY <2>1, <2>2, <2>3, <2>4, <1>3
<1>12. \A i \in DOMAIN asks' : ~IsWhole(asks'[i])
  BY <1>10, <1>1, AsksDiffer
<1>13. \A i \in DOMAIN asks' : IsScan(asks'[i]) /\ TextPages # {} => reading = "blanks"
  BY <1>3, <1>7, <1>8, <1>9
<1>14. /\ TextPages' = TextPages /\ Blanks' = Blanks
       /\ \A a : IsWhole(a)' = IsWhole(a) /\ IsOwn(a)' = IsOwn(a) /\ IsScan(a)' = IsScan(a)
  BY <1>1, LayoutKeeps
<1>15. AsksInv'
  <2> DEFINE qs == asks'
  <2>1. \A i \in DOMAIN qs : \A a : a = qs[i] => (IsOwn(a)' \/ IsScan(a)') /\ ~IsWhole(a)' /\ (IsScan(a)' /\ TextPages # {} => reading = "blanks")
    BY <1>10, <1>12, <1>13, <1>14
  <2>2. \A i \in DOMAIN asks' : (IsOwn(asks[i])' \/ IsScan(asks[i])') /\ ~IsWhole(asks[i])' /\ (IsScan(asks[i])' /\ TextPages # {} => reading = "blanks")
    BY <2>1 DEF IsOwn, IsScan, IsWhole, IsAlone, IsBatch, Places, IsSeq
  <2> QED BY <2>2, <1>3, <1>11, <1>14 DEF AsksInv
<1>16. \A i \in DOMAIN parts : \A d : d = parts[i] => PartOk(d)' /\ d.page \notin Range(q.pages) /\ ~Names(asks', d.page)
  <2> SUFFICES ASSUME NEW i \in DOMAIN parts, NEW d, d = parts[i] PROVE PartOk(d)' /\ d.page \notin Range(q.pages) /\ ~Names(asks', d.page)
    OBVIOUS
  <2>1. PartOk(d)'
    BY <1>1, PartKeeps DEF PartsInv
  <2>2. d.page \notin Range(q.pages)
    BY <1>1, <1>2 DEF PartsInv, Names
  <2>3. \A k \in DOMAIN left : d.page \notin Range(left[k].pages)
    BY <1>1, <1>2 DEF PartsInv, Names
  <2>4. \A k \in DOMAIN asks' : d.page \notin Range(asks'[k].pages)
    BY <2>2, <2>3, <1>3
  <2> QED BY <2>1, <2>2, <2>4 DEF Names
<1>17. \A k \in DOMAIN made : \A e : e = made[k] => PartOk(e)' /\ (OfOwn(e)' \/ OfPage(e)' \/ OfBatch(e)') /\ e.page \in Range(q.pages) /\ ~Names(asks', e.page)
  <2> SUFFICES ASSUME NEW k \in DOMAIN made, NEW e, e = made[k]
               PROVE PartOk(e)' /\ (OfOwn(e)' \/ OfPage(e)' \/ OfBatch(e)') /\ e.page \in Range(q.pages) /\ ~Names(asks', e.page)
    OBVIOUS
  <2>1. e \in Range(made)
    BY DEF Range
  <2>2. e.page \in Range(q.pages) /\ ~Names(more, e.page) /\ (OfOwn(e)' \/ OfPage(e)' \/ OfBatch(e)')
    BY <2>1, PartKeeps
  <2>3. \A j \in DOMAIN asks' : e.page \notin Range(asks'[j].pages)
    BY <2>2, <1>3, <1>5 DEF Names
  <2> QED BY <2>2, <2>3 DEF Names, PartOk
<1>18. \A i \in DOMAIN parts, k \in DOMAIN made : Apart2(parts[i], made[k]) /\ Apart2(made[k], parts[i])
  <2> SUFFICES ASSUME NEW i \in DOMAIN parts, NEW k \in DOMAIN made PROVE Apart2(parts[i], made[k]) /\ Apart2(made[k], parts[i])
    OBVIOUS
  <2> DEFINE d == parts[i]
             e == made[k]
  <2>1. d.page # e.page
    BY <1>16, <1>17
  <2>2. ASSUME d.from = e.from PROVE d.from.how = "batch"
    <3>1. PICK x : x = d
      OBVIOUS
    <3>2. PICK y : y = e
      OBVIOUS
    <3>3. PartOk(x) /\ (OfOwn(y)' \/ OfPage(y)' \/ OfBatch(y)') /\ x.from = y.from /\ x.page # y.page
      BY <3>1, <3>2, <2>1, <2>2, <1>1, <1>17 DEF PartsInv
    <3>4. OfOwn(y)' \/ OfPage(y)' => ByPage(y)
      BY <1>1, LayoutKeeps DEF OfOwn, OfPage, Drawn, MadeFrom, ByPage
    <3>5. y.from.how = "batch"
      BY <3>3, <3>4, <1>1, FromTellsPage DEF OfBatch
    <3> QED BY <3>1, <3>3, <3>5
  <2> QED BY <2>1, <2>2 DEF Apart2
<1>19. \A i, j \in DOMAIN parts' : i # j => Apart2(parts'[i], parts'[j])
  <2> SUFFICES ASSUME NEW i \in DOMAIN parts', NEW j \in DOMAIN parts', i # j PROVE Apart2(parts'[i], parts'[j])
    OBVIOUS
  <2>1. CASE i \in DOMAIN parts /\ parts'[i] = parts[i] /\ j \in DOMAIN parts /\ parts'[j] = parts[j]
    BY <2>1, <1>1 DEF PartsInv
  <2>2. CASE i - Len(parts) \in DOMAIN made /\ parts'[i] = made[i - Len(parts)] /\ j - Len(parts) \in DOMAIN made /\ parts'[j] = made[j - Len(parts)]
    <3>1. i - Len(parts) # j - Len(parts)
      BY <1>4
    <3> QED BY <3>1, <2>2
  <2>3. CASE i \in DOMAIN parts /\ parts'[i] = parts[i] /\ j - Len(parts) \in DOMAIN made /\ parts'[j] = made[j - Len(parts)]
    BY <2>3, <1>18
  <2>4. CASE i - Len(parts) \in DOMAIN made /\ parts'[i] = made[i - Len(parts)] /\ j \in DOMAIN parts /\ parts'[j] = parts[j]
    BY <2>4, <1>18
  <2> QED BY <2>1, <2>2, <2>3, <2>4, <1>4
<1>20. \A i \in DOMAIN parts' : \A d : d = parts'[i] => PartOk(d)' /\ ~Names(asks', d.page)
  BY <1>4, <1>16, <1>17
<1>21. ASSUME reading = "asking", TextPages # {}, NEW i \in DOMAIN parts' PROVE parts'[i].page \notin Blanks
  <2>1. CASE i \in DOMAIN parts /\ parts'[i] = parts[i]
    BY <2>1, <1>1, <1>21 DEF PartsInv
  <2>2. CASE i - Len(parts) \in DOMAIN made /\ parts'[i] = made[i - Len(parts)]
    <3>1. ~IsScan(q) /\ IsOwn(q)
      BY <1>1, <1>2, <1>21 DEF AsksInv
    <3>2. PICK p \in OwnPages : q = Ask("text", <<p>>)
      BY <3>1 DEF IsOwn
    <3>3. Range(q.pages) = {p}
      BY <3>2 DEF Ask, Range
    <3>4. parts'[i].page = p
      BY <3>3, <2>2, <1>17
    <3> QED BY <3>2, <3>4, <1>1, WaysIs
  <2> QED BY <2>1, <2>2, <1>4
<1>22. PartsInv'
  <2>1. \A i \in DOMAIN parts' : PartOk(parts[i])'
    BY <1>20 DEF PartOk, OfWhole, OfOwn, OfPage, OfBatch, Drawn, MadeFrom
  <2>2. \A i, j \in DOMAIN parts' : i # j => Apart2(parts[i], parts[j])'
    BY <1>19 DEF Apart2
  <2>3. \A i \in DOMAIN parts' : ~Names(asks, parts[i].page)'
    BY <1>20 DEF Names
  <2> QED BY <2>1, <2>2, <2>3, <1>4, <1>14, <1>21 DEF PartsInv
<1> QED BY <1>15, <1>22

LEMMA AccountGrows ==
  ASSUME FileInv, UNCHANGED <<layout, reading>>, asks # <<>>, reading # "new",
         NEW made, NEW more, IsSeq(made), IsSeq(more),
         asks' = more \o Tail(asks), parts' = parts \o made, said \subseteq said',
         \A p \in Range(Head(asks).pages) \cap FilePages : Accounted(p)'
  PROVE  AccountInv'
<1>1. AsksInv /\ PartsInv /\ AccountInv
  BY DEF FileInv
<1>2. FilePages' = FilePages /\ TextPages' = TextPages /\ Blanks' = Blanks /\ SplittablePages' = SplittablePages
  BY LayoutKeeps
<1>3. /\ IsSeq(Tail(asks)) /\ Head(asks) = asks[1]
      /\ \A i \in DOMAIN asks : i = 1 \/ \E k \in DOMAIN Tail(asks) : k + 1 = i /\ asks[i] = Tail(asks)[k]
  BY <1>1, TailIs DEF AsksInv
<1>4. Range(asks') = Range(more) \cup Range(Tail(asks)) /\ Range(parts') = Range(parts) \cup Range(made)
  BY <1>1, <1>3, Joins DEF PartsInv
<1>5. ASSUME NEW p \in FilePages, Accounted(p) PROVE Accounted(p)'
  <2>1. CASE p \in Range(Head(asks).pages)
    BY <2>1, <1>5
  <2>2. CASE p \in said
    <3>1. p \in said'
      BY <2>2
    <3> QED BY <3>1 DEF Accounted
  <2>3. CASE Covered(p)
    <3>1. \E d \in Range(parts) : p \in Range(d.from.pages)
      BY <2>3 DEF Covered, Range
    <3>2. \E d \in Range(parts') : p \in Range(d.from.pages)
      BY <3>1, <1>4
    <3>3. Covered(p)'
      BY <3>2 DEF Covered, Range
    <3> QED BY <3>3 DEF Accounted
  <2>4. CASE Names(asks, p) /\ p \notin Range(Head(asks).pages)
    <3>1. PICK i \in DOMAIN asks : p \in Range(asks[i].pages)
      BY <2>4 DEF Names
    <3>2. i # 1
      BY <3>1, <2>4, <1>3
    <3>3. PICK k \in DOMAIN Tail(asks) : asks[i] = Tail(asks)[k]
      BY <3>1, <3>2, <1>3
    <3>35. Tail(asks)[k] \in Range(Tail(asks)) /\ p \in Range(Tail(asks)[k].pages)
      BY <3>1, <3>3 DEF Range
    <3>4. \E a \in Range(asks') : p \in Range(a.pages)
      BY <3>35, <1>4
    <3>5. Names(asks, p)'
      BY <3>4 DEF Names, Range
    <3> QED BY <3>5 DEF Accounted
  <2>5. CASE p \in TextPages /\ ~SplittablePages
    BY <2>5, <1>2 DEF Accounted
  <2>6. CASE reading = "asking" /\ TextPages # {} /\ p \in Blanks
    BY <2>6, <1>2 DEF Accounted
  <2> QED BY <1>5, <2>1, <2>2, <2>3, <2>4, <2>5, <2>6 DEF Accounted
<1>6. \A p \in FilePages : Accounted(p)'
  BY <1>1, <1>5 DEF AccountInv
<1> QED BY <1>2, <1>6 DEF AccountInv

\* The whole file answered: its receipts are the rows, and nothing is left to ask of it.
LEMMA WholeGrows ==
  ASSUME FileInv, Grew, HeardInv', asks # <<>>, IsWhole(Head(asks)), reading \in {"asking", "blanks"}, UNCHANGED reading,
         NEW es, IsSeq(es), es # <<>> => \E h \in DOMAIN heard' : heard'[h].ask = WholeAsk /\ heard'[h].list = es,
         asks' = Tail(asks), parts' = parts \o FromParsed(WholeAsk, es, 0), said \subseteq said'
  PROVE  AsksInv' /\ PartsInv' /\ AccountInv'
<1> DEFINE made == FromParsed(WholeAsk, es, 0)
<1>1. UNCHANGED layout /\ layout \in Layout /\ AsksInv /\ PartsInv /\ AccountInv
  BY DEF Grew, FileInv
<1>2. Head(asks) = asks[1] /\ 1 \in DOMAIN asks /\ IsSeq(Tail(asks)) /\ Len(Tail(asks)) = Len(asks) - 1
  BY <1>1, TailIs DEF AsksInv
<1>3. Together /\ Head(asks) = WholeAsk /\ Len(asks) = 1 /\ parts = <<>> /\ reading = "asking"
  BY <1>1, <1>2 DEF AsksInv, IsWhole
<1>4. asks' = <<>>
  <2>1. Tail(asks) \in Seq(Range(Tail(asks))) /\ Len(Tail(asks)) = 0
    BY <1>2, <1>3 DEF IsSeq
  <2> QED BY <2>1
<1>5. /\ IsSeq(made) /\ (es # <<>> => 1 \in DOMAIN made) /\ (es = <<>> => made = <<>>)
      /\ \A k \in DOMAIN made : MadeFrom(made[k], WholeAsk, es, 0) /\ (WholeAsk.how # "pages" => made[k].page = 0)
      /\ \A k, l \in DOMAIN made : k # l => made[k].nth # made[l].nth
  <2>1. EachOnce(made, WholeAsk, es, 0)
    BY MadeIs
  <2> HIDE DEF made
  <2> QED BY <2>1 DEF EachOnce
<1> HIDE DEF made
<1>6. parts' = made
  <2>1. made \in Seq(Range(made))
    BY <1>5 DEF IsSeq
  <2>2. parts' = <<>> \o made
    BY <1>3 DEF made
  <2> QED BY <2>1, <2>2
<1>7. Together' = Together /\ WholeAsk' = WholeAsk /\ TextPages' = TextPages /\ Blanks' = Blanks /\ FilePages' = FilePages
      /\ SplittablePages' = SplittablePages
  BY <1>1, LayoutKeeps
<1>8. AsksInv'
  <2>1. DOMAIN asks' = {} /\ IsSeq(asks')
    BY <1>4, EmptyIs
  <2> QED BY <2>1, <1>4 DEF AsksInv
<1>9. ASSUME NEW k \in DOMAIN made, NEW d, d = made[k] PROVE PartOk(d)' /\ d.from = WholeAsk /\ (TextPages # {} => d.page = 0)
  <2>1. es # <<>> /\ MadeFrom(d, WholeAsk, es, 0)
    BY <1>5, <1>9, EmptyIs
  <2>2. PICK h \in DOMAIN heard' : heard'[h].ask = WholeAsk /\ heard'[h].list = es
    BY <2>1
  <2>3. Drawn(d, WholeAsk, 0)'
    BY <2>1, <2>2, <1>7 DEF Drawn, MadeFrom
  <2>4. OfWhole(d)'
    BY <2>3, <1>3, <1>7 DEF OfWhole
  <2>5. TextPages # {} => WholeAsk.how = "text"
    BY <1>1, <1>3, WholeIs
  <2> QED BY <2>1, <2>4, <2>5, <1>5, <1>9 DEF PartOk, MadeFrom
<1>10. PartsInv'
  <2>1. \A i \in DOMAIN parts' : PartOk(parts[i])'
    <3>1. \A i \in DOMAIN parts' : \A d : d = parts'[i] => PartOk(d)'
      BY <1>6, <1>9
    <3> QED BY <3>1 DEF PartOk, OfWhole, OfOwn, OfPage, OfBatch, Drawn, MadeFrom
  <2>2. ASSUME NEW i \in DOMAIN parts', NEW j \in DOMAIN parts', i # j PROVE Apart2(parts[i], parts[j])'
    <3>1. parts'[i].from = WholeAsk /\ parts'[j].from = WholeAsk /\ parts'[i].nth # parts'[j].nth
      BY <2>2, <1>5, <1>6, <1>9
    <3>2. WholeAsk.how # "batch"
      BY <1>1, <1>3, WholeIs
    <3> QED BY <3>1, <3>2 DEF Apart2
  <2>3. \A p : ~Names(asks', p)
    BY <1>4, EmptyIs DEF Names
  <2>4. \A p : ~Names(asks, p)'
    BY <2>3 DEF Names
  <2>5. \A i \in DOMAIN parts' : TextPages # {} => parts'[i].page \notin Blanks
    <3>1. 0 \notin Blanks
      BY <1>1, PagesIs
    <3> QED BY <3>1, <1>6, <1>9
  <2> QED BY <2>1, <2>2, <2>4, <2>5, <1>3, <1>5, <1>6, <1>7 DEF PartsInv
<1>11. AccountInv'
  <2>1. IsSeq(<<>>) /\ asks' = <<>> \o Tail(asks)
    BY <1>4, EmptyIs
  <2>2. ASSUME NEW p \in Range(WholeAsk.pages) \cap FilePages PROVE Accounted(p)'
    <3>1. CASE es # <<>>
      <4>1. made[1].from = WholeAsk /\ 1 \in DOMAIN made
        BY <3>1, <1>5, <1>9
      <4>2. Covered(p)'
        BY <4>1, <1>6 DEF Covered
      <4> QED BY <4>2 DEF Accounted
    <3>2. CASE es = <<>> /\ TextPages = {}
      <4>1. parts' = <<>>
        BY <3>2, <1>5, <1>6
      <4> QED BY <4>1, <3>2, <1>3, <1>4, <1>7 DEF Accounted
    <3>3. CASE TextPages # {}
      <4>1. WholeAsk.pages = Upto(Least(layout.pages, TextMax))
        BY <3>3, <1>1, <1>3, WholeIs
      <4>2. layout.pages \in Nat /\ TextMax \in Nat /\ Least(layout.pages, TextMax) \in Nat /\ Least(layout.pages, TextMax) <= TextMax
            /\ Least(layout.pages, TextMax) <= layout.pages
        BY <1>1, PagesIs, LeastIs
      <4>3. p \in 1 .. Least(layout.pages, TextMax)
        BY <4>1, <4>2, UptoIs
      <4>4. p \in 1 .. layout.pages /\ p \notin Beyond(TextMax)
        BY <4>2, <4>3 DEF Beyond
      <4>5. p \in TextPages \/ p \in Blanks
        BY <4>4, <1>1, PagesIs
      <4>6. ~SplittablePages
        BY <3>3, <1>3 DEF Together
      <4> QED BY <4>5, <4>6, <3>3, <1>3, <1>7 DEF Accounted
    <3> QED BY <3>1, <3>2, <3>3
  <2>3. said \subseteq said' /\ parts' = parts \o made /\ reading # "new"
    BY <1>3 DEF made
  <2>4. \A p \in Range(Head(asks).pages) \cap FilePages : Accounted(p)'
    BY <2>2, <1>3
  <2> QED BY <2>1, <2>3, <2>4, <1>1, <1>5, AccountGrows
<1> QED BY <1>8, <1>10, <1>11

LEMMA RereadKeeps == ASSUME FileInv, reading # "read", UNCHANGED reread PROVE RereadInv' /\ RereadInv
BY DEF FileInv, RereadInv

LEMMA OneIs == ASSUME NEW d PROVE IsSeq(<<d>>) /\ DOMAIN <<d>> = {1} /\ <<d>>[1] = d /\ Range(<<d>>) = {d}
<1>1. <<d>> \in Seq({d}) /\ DOMAIN <<d>> = {1} /\ <<d>>[1] = d
  OBVIOUS
<1>2. Range(<<d>>) = {d}
  BY DEF Range
<1> QED BY <1>1, <1>2, SeqIs

\* The question at the front, by how it is asked.
LEMMA FrontIs ==
  ASSUME FileInv, asks # <<>>
  PROVE  /\ IsWhole(Head(asks)) \/ IsOwn(Head(asks)) \/ IsScan(Head(asks))
         /\ Head(asks).how \in {"image", "pages"} => IsWhole(Head(asks))
         /\ Head(asks).how = "text" => IF SplittablePages THEN IsOwn(Head(asks)) ELSE IsWhole(Head(asks))
         /\ Head(asks).how = "alone" => IsAlone(Head(asks), Scans)
         /\ Head(asks).how = "batch" => IsBatch(Head(asks), Scans)
         /\ IsSeq(Tail(asks)) /\ Tail(asks) = <<>> \o Tail(asks) /\ parts = parts \o <<>>
<1>1. layout \in Layout /\ AsksInv /\ PartsInv
  BY DEF FileInv
<1>2. Head(asks) = asks[1] /\ 1 \in DOMAIN asks /\ IsSeq(Tail(asks))
  BY <1>1, TailIs DEF AsksInv
<1>3. IsWhole(Head(asks)) \/ IsOwn(Head(asks)) \/ IsScan(Head(asks))
  BY <1>1, <1>2 DEF AsksInv
<1> DEFINE q == Head(asks)
<1>4. /\ IsWhole(q) => ~IsOwn(q) /\ ~IsScan(q) /\ q.how \in {"image", "pages", "text"}
      /\ IsOwn(q) => ~IsScan(q) /\ q.how = "text" /\ SplittablePages
      /\ IsScan(q) => q.how \in {"alone", "batch"}
      /\ IsAlone(q, Scans) => q.how = "alone"
      /\ IsBatch(q, Scans) => q.how = "batch"
  BY <1>1, AsksDiffer
<1>5. SplittablePages => ~IsWhole(q)
  BY <1>1, PagesIs DEF IsWhole, Together
<1>6. IsScan(q) <=> IsAlone(q, Scans) \/ IsBatch(q, Scans)
  BY DEF IsScan
<1>7. Tail(asks) = <<>> \o Tail(asks) /\ parts = parts \o <<>>
  BY <1>1, <1>2 DEF IsSeq, PartsInv
<1> HIDE DEF q
<1>8. /\ q.how \in {"image", "pages"} => IsWhole(q)
      /\ q.how = "text" => IF SplittablePages THEN IsOwn(q) ELSE IsWhole(q)
      /\ q.how = "alone" => IsAlone(q, Scans)
      /\ q.how = "batch" => IsBatch(q, Scans)
  BY <1>3, <1>4, <1>5, <1>6 DEF q
<1> QED BY <1>2, <1>3, <1>7, <1>8 DEF q

LEMMA AskingKeeps ==
  ASSUME FileInv, NEW how, Answering(how), UNCHANGED <<layout, reading, reread>>, HeardInv', AsksInv', PartsInv', AccountInv'
  PROVE  FileInv'
<1>1. reading \in {"asking", "blanks"}
  BY DEF Answering
<1>2. RereadInv'
  BY <1>1, RereadKeeps
<1> QED BY <1>1, <1>2 DEF FileInv

\* The answer of the whole file, as a step.
LEMMA WholeAnswered ==
  ASSUME FileInv, NEW how, Answering(how), IsWhole(Head(asks)), NEW es \in May(WholeAsk), Hears(WholeAsk, es),
         NEW named, Answered(FromParsed(WholeAsk, es, 0), named)
  PROVE  FileInv'
<1>1. HeardInv /\ asks # <<>> /\ reading \in {"asking", "blanks"}
  BY DEF FileInv, Answering
<1>2. /\ HeardInv' /\ \A h \in DOMAIN heard : h \in DOMAIN heard' /\ heard'[h] = heard[h]
      /\ es # <<>> => \E h \in DOMAIN heard' : heard'[h].ask = WholeAsk /\ heard'[h].list = es
  BY <1>1, HeardKeeps
<1>3. /\ asks' = Tail(asks) /\ parts' = parts \o FromParsed(WholeAsk, es, 0) /\ said \subseteq said'
      /\ UNCHANGED <<layout, reading, reread>>
  BY DEF Answered
<1>4. Grew
  BY <1>2, <1>3 DEF Grew
<1>5. IsSeq(es)
  BY <1>1, MayIs
<1>6. AsksInv' /\ PartsInv' /\ AccountInv'
  BY <1>1, <1>2, <1>3, <1>4, <1>5, WholeGrows
<1> QED BY <1>2, <1>3, <1>6, AskingKeeps

LEMMA LookedKeeps == ASSUME FileInv, Looked PROVE FileInv'
<1>1. Answering({"image", "pages"}) /\ asks # <<>> /\ Head(asks).how \in {"image", "pages"}
  BY DEF Looked, Answering
<1>2. IsWhole(Head(asks)) /\ Head(asks) = WholeAsk
  BY <1>1, FrontIs DEF IsWhole
<1>3. PICK es \in May(WholeAsk) : \E named : Answered(FromParsed(WholeAsk, es, 0), named) /\ Hears(WholeAsk, es)
  BY <1>2 DEF Looked
<1> QED BY <1>1, <1>2, <1>3, WholeAnswered

\* A page of text of its own answered, or not: a row.
LEMMA OwnGrows ==
  ASSUME FileInv, Grew, HeardInv', asks # <<>>, IsOwn(Head(asks)), reading \in {"asking", "blanks"}, UNCHANGED reading,
         NEW r, asks' = Tail(asks), parts' = parts \o <<Made(Head(asks), Head(asks).pages[1], "none", r, 1)>>, said \subseteq said'
  PROVE  AsksInv' /\ PartsInv' /\ AccountInv'
<1> DEFINE d == Made(Head(asks), Head(asks).pages[1], "none", r, 1)
<1>1. PICK p \in OwnPages : Head(asks) = Ask("text", <<p>>)
  BY DEF IsOwn
<1>2. Head(asks).pages = <<p>> /\ Head(asks).pages[1] = p /\ Range(Head(asks).pages) = {p}
  BY <1>1, OneIs DEF Ask
<1>3. d.page = p /\ d.box = "none" /\ d.from = Ask("text", <<p>>) /\ d.nth = 1
  BY <1>1, <1>2 DEF Made
<1>4. ~IsWhole(Head(asks)) /\ ~IsScan(Head(asks))
  BY AsksDiffer DEF FileInv
<1>5. OfOwn(d)
  BY <1>3 DEF OfOwn
<1>6. IsSeq(<<d>>) /\ DOMAIN <<d>> = {1} /\ Range(<<d>>) = {d}
  BY OneIs
<1>7. asks' = <<>> \o Tail(asks) /\ OfScans(<<>>, Scans) /\ IsSeq(<<>>) /\ DOMAIN <<>> = {} /\ \A x : ~Names(<<>>, x)
  BY FrontIs, EmptyIs DEF OfScans, Names
<1>8. parts' = parts \o <<d>> /\ d.page \in Range(Head(asks).pages)
  BY <1>2, <1>3
<1> HIDE DEF d
<1>9. AsksInv' /\ PartsInv'
  BY <1>4, <1>5, <1>6, <1>7, <1>8, Grows
<1>10. Covered(p)'
  <2>1. \A x \in Range(<<d>>) : x = d
    BY <1>6
  <2>2. Range(parts') = Range(parts) \cup {d}
    <3>1. IsSeq(parts)
      BY DEF FileInv, PartsInv
    <3> QED BY <3>1, <1>6, <1>8, Joins
  <2>3. PICK i \in DOMAIN parts' : parts'[i] = d
    BY <2>2 DEF Range
  <2>4. p \in Range(d.from.pages)
    BY <1>1, <1>2, <1>3
  <2> QED BY <2>3, <2>4 DEF Covered
<1>11. \A x \in Range(Head(asks).pages) \cap FilePages : Accounted(x)'
  BY <1>2, <1>10 DEF Accounted
<1>12. AccountInv'
  BY <1>6, <1>7, <1>8, <1>11, AccountGrows DEF Grew
<1> QED BY <1>9, <1>12

LEMMA TypedKeeps == ASSUME FileInv, Typed PROVE FileInv'
<1>1. Answering({"text"}) /\ asks # <<>> /\ Head(asks).how = "text" /\ reading \in {"asking", "blanks"} /\ HeardInv
  BY DEF Typed, Answering, FileInv
<1>2. CASE ~SplittablePages
  <2>1. IsWhole(Head(asks)) /\ Head(asks) = WholeAsk
    BY <1>1, <1>2, FrontIs DEF IsWhole
  <2>2. PICK es \in May(WholeAsk) : \E named : Answered(FromParsed(WholeAsk, es, 0), named) /\ Hears(WholeAsk, es)
    BY <1>2, <2>1 DEF Typed
  <2> QED BY <1>1, <2>1, <2>2, WholeAnswered
<1>3. CASE SplittablePages
  <2>1. IsOwn(Head(asks))
    BY <1>1, <1>3, FrontIs
  <2>2. PICK es \in May(Head(asks)) : \E r, named :
          Answered(<<Made(Head(asks), Head(asks).pages[1], "none", r, 1)>>, named) /\ Hears(Head(asks), es)
    BY <1>3 DEF Typed
  <2>3. PICK r, named : Answered(<<Made(Head(asks), Head(asks).pages[1], "none", r, 1)>>, named)
    BY <2>2
  <2>4. HeardInv' /\ \A h \in DOMAIN heard : h \in DOMAIN heard' /\ heard'[h] = heard[h]
    BY <1>1, <2>2, HeardKeeps
  <2>5. /\ asks' = Tail(asks) /\ parts' = parts \o <<Made(Head(asks), Head(asks).pages[1], "none", r, 1)>> /\ said \subseteq said'
        /\ UNCHANGED <<layout, reading, reread>>
    BY <2>3 DEF Answered
  <2>6. Grew
    BY <2>4, <2>5 DEF Grew
  <2>7. AsksInv' /\ PartsInv' /\ AccountInv'
    BY <1>1, <2>1, <2>4, <2>5, <2>6, OwnGrows
  <2> QED BY <1>1, <2>4, <2>5, <2>7, AskingKeeps
<1> QED BY <1>2, <1>3

\* Of a scanned page, each receipt in which something was read, once.
LEMMA FoundIs ==
  ASSUME NEW q, NEW es, IsSeq(es), NEW p, q.how # "pages"
  PROVE  /\ IsSeq(Found(q, es, p))
         /\ \A d \in Range(Found(q, es, p)) : MadeFrom(d, q, es, p) /\ d.page = p /\ es # <<>>
         /\ \A i, j \in DOMAIN Found(q, es, p) : i # j => Found(q, es, p)[i].nth # Found(q, es, p)[j].nth
<1> DEFINE made == FromParsed(q, es, p)
           S == {k \in DOMAIN made : ReadSomething(made[k].r)}
           good == InOrder(S)
           found == Found(q, es, p)
<1>1. EachOnce(made, q, es, p)
  BY MadeIs
<1>2. found = [n \in DOMAIN good |-> made[good[n]]]
  BY DEF Found
<1>3. S \in SUBSET Nat /\ IsFiniteSet(S) /\ S \subseteq DOMAIN made
  <2>1. made \in Seq(Range(made))
    BY <1>1 DEF EachOnce, IsSeq
  <2> HIDE DEF made
  <2>2. DOMAIN made = 1 .. Len(made) /\ Len(made) \in Nat
    BY <2>1
  <2>3. S \in SUBSET (1 .. Len(made)) /\ IsFiniteSet(1 .. Len(made)) /\ 1 .. Len(made) \subseteq Nat
    BY <2>2, FS_Interval
  <2>4. IsFiniteSet(S)
    BY <2>3, FS_Subset
  <2> QED BY <2>3, <2>4
<1> DEFINE N == Cardinality(S)
<1>4. N \in Nat /\ good \in [1 .. N -> S] /\ IsInjective(good)
  BY <1>3, InOrderIs
<1> HIDE DEF made, S, good, found, N
<1>5. ASSUME NEW n \in 1 .. N PROVE good[n] \in DOMAIN made
  BY <1>3, <1>4
<1>6. found = [n \in 1 .. N |-> made[good[n]]]
  BY <1>2, <1>4
<1>7. IsSeq(found) /\ DOMAIN found = 1 .. N
  <2>1. \A n \in 1 .. N : made[good[n]] \in Range(made)
    BY <1>5 DEF Range
  <2>2. found \in Seq(Range(made))
    BY <2>1, <1>4, <1>6
  <2> QED BY <2>2, <1>6, SeqIs
<1>8. ASSUME NEW d \in Range(found) PROVE MadeFrom(d, q, es, p) /\ d.page = p /\ es # <<>>
  <2>1. PICK n \in 1 .. N : d = made[good[n]]
    BY <1>6 DEF Range
  <2>2. good[n] \in DOMAIN made
    BY <1>5
  <2>3. es = <<>> => DOMAIN made = {}
    BY <1>1, EmptyIs DEF EachOnce
  <2> QED BY <2>1, <2>2, <2>3, <1>1 DEF EachOnce
<1>9. ASSUME NEW i \in 1 .. N, NEW j \in 1 .. N, i # j PROVE found[i].nth # found[j].nth
  <2>1. good[i] # good[j] /\ good[i] \in DOMAIN made /\ good[j] \in DOMAIN made
    BY <1>4, <1>5, <1>9 DEF IsInjective
  <2>2. made[good[i]].nth # made[good[j]].nth
    BY <2>1, <1>1 DEF EachOnce
  <2> QED BY <2>2, <1>6
<1> QED BY <1>7, <1>8, <1>9 DEF found

LEMMA ScannedKeeps == ASSUME FileInv, Scanned PROVE FileInv'
<1>1. Answering({"alone"}) /\ asks # <<>> /\ Head(asks).how = "alone" /\ reading \in {"asking", "blanks"} /\ HeardInv /\ layout \in Layout
  BY DEF Scanned, Answering, FileInv
<1>2. PICK p \in Scans : Head(asks) = Ask("alone", <<p>>)
  BY <1>1, FrontIs DEF IsAlone
<1>3. Head(asks).pages[1] = p /\ Range(Head(asks).pages) = {p}
  BY <1>2, AloneIs
<1> DEFINE q == Ask("image", <<p>>)
<1>4. PICK es \in May(q) :
        /\ Answered(Found(q, es, p), IF Found(q, es, p) = <<>> THEN {p} ELSE {})
        /\ Hears(q, es)
  BY <1>3 DEF Scanned
<1> DEFINE made == Found(q, es, p)
<1>5. q.how = "image" /\ q.pages = <<p>> /\ Range(q.pages) = {p}
  BY OneIs DEF Ask
<1>6. IsSeq(es)
  BY <1>1, MayIs
<1>7. /\ IsSeq(made)
      /\ \A d \in Range(made) : MadeFrom(d, q, es, p) /\ d.page = p /\ es # <<>>
      /\ \A i, j \in DOMAIN made : i # j => made[i].nth # made[j].nth
  <2>1. q.how # "pages"
    BY <1>5
  <2> HIDE DEF q
  <2> QED BY <2>1, <1>6, FoundIs
<1>8. /\ HeardInv' /\ \A h \in DOMAIN heard : h \in DOMAIN heard' /\ heard'[h] = heard[h]
      /\ es # <<>> => \E h \in DOMAIN heard' : heard'[h].ask = q /\ heard'[h].list = es
  BY <1>1, <1>4, HeardKeeps
<1>9. /\ asks' = Tail(asks) /\ parts' = parts \o made /\ said' = said \cup (IF made = <<>> THEN {p} ELSE {})
      /\ UNCHANGED <<layout, reading, reread>>
  BY <1>4 DEF Answered
<1>10. Grew
  BY <1>8, <1>9 DEF Grew
<1>11. ~IsWhole(Head(asks)) /\ IsScan(Head(asks))
  BY <1>1, <1>2, AsksDiffer DEF IsScan, IsAlone
<1>12. asks' = <<>> \o Tail(asks) /\ OfScans(<<>>, Scans) /\ IsSeq(<<>>) /\ DOMAIN <<>> = {} /\ \A x : ~Names(<<>>, x)
  BY <1>1, <1>9, FrontIs, EmptyIs DEF OfScans, Names
<1> HIDE DEF made
<1>13. ASSUME NEW d \in Range(made) PROVE OfPage(d)' /\ d.from = q /\ d.page = p
  <2>1. MadeFrom(d, q, es, p) /\ d.page = p /\ es # <<>>
    BY <1>7
  <2>2. PICK h \in DOMAIN heard' : heard'[h].ask = q /\ heard'[h].list = es
    BY <2>1, <1>8
  <2>3. \A x, y : x = q /\ y = p => Drawn(d, x, y)'
    BY <2>1, <2>2 DEF Drawn, MadeFrom
  <2>4. \A y : y = p => Drawn(d, Ask("image", <<y>>), y)'
    BY <2>3 DEF Drawn, MadeFrom, Ask
  <2>5. d.page \in Scans'
    BY <2>1, <1>9, LayoutKeeps
  <2>6. Drawn(d, Ask("image", <<d.page>>), d.page)'
    BY <2>1, <2>4
  <2> QED BY <2>1, <2>5, <2>6 DEF OfPage, MadeFrom
<1>14. \A i, j \in DOMAIN made : i # j => Apart2(made[i], made[j])
  <2> SUFFICES ASSUME NEW i \in DOMAIN made, NEW j \in DOMAIN made, i # j PROVE Apart2(made[i], made[j])
    OBVIOUS
  <2>1. made[i] \in Range(made) /\ made[j] \in Range(made)
    BY DEF Range
  <2>2. made[i].from = q /\ made[j].from = q /\ made[i].nth # made[j].nth
    BY <2>1, <1>7, <1>13
  <2> QED BY <2>2, <1>5 DEF Apart2
<1>15. AsksInv' /\ PartsInv'
  <2>1. \A d \in Range(made) : /\ d.page \in Range(Head(asks).pages) /\ ~Names(<<>>, d.page)
                               /\ OfOwn(d) \/ OfPage(d)' \/ OfBatch(d)
    BY <1>3, <1>12, <1>13
  <2>2. parts' = parts \o made
    BY <1>9
  <2> QED BY <2>1, <2>2, <1>1, <1>7, <1>8, <1>9, <1>10, <1>11, <1>12, <1>14, Grows
<1>16. Accounted(p)'
  <2>1. CASE made = <<>>
    <3>1. p \in said'
      BY <2>1, <1>9
    <3> QED BY <3>1 DEF Accounted
  <2>2. CASE made # <<>>
    <3>1. 1 \in DOMAIN made
      BY <2>2, <1>7, SomeIs
    <3>2. made[1] \in Range(made)
      BY <3>1 DEF Range
    <3>3. Range(parts') = Range(parts) \cup Range(made)
      <4>1. IsSeq(parts)
        BY DEF FileInv, PartsInv
      <4> QED BY <4>1, <1>7, <1>9, Joins
    <3>4. PICK i \in DOMAIN parts' : parts'[i] = made[1]
      BY <3>2, <3>3 DEF Range
    <3>5. p \in Range(parts'[i].from.pages)
      BY <3>2, <3>4, <1>5, <1>13
    <3>6. Covered(p)'
      BY <3>5 DEF Covered
    <3> QED BY <3>6 DEF Accounted
  <2> QED BY <2>1, <2>2
<1>17. AccountInv'
  <2>1. \A x \in Range(Head(asks).pages) \cap FilePages : Accounted(x)'
    BY <1>3, <1>16 DEF Accounted
  <2>2. said \subseteq said' /\ reading # "new"
    BY <1>1, <1>9
  <2> QED BY <2>1, <2>2, <1>1, <1>7, <1>9, <1>12, AccountGrows
<1> QED BY <1>1, <1>8, <1>9, <1>15, <1>17, AskingKeeps

LEMMA OutOfReachKeeps == ASSUME FileInv, OutOfReach PROVE FileInv'
<1> DEFINE q == Head(asks)
           named == Range(q.pages)
<1>1. Answering({"image", "pages", "text", "alone"}) /\ asks # <<>> /\ reading \in {"asking", "blanks"} /\ HeardInv /\ layout \in Layout
      /\ q.how \in {"image", "pages", "text", "alone"} /\ heard' = heard
  BY DEF OutOfReach, Answering, FileInv
<1>2. HeardInv'
  BY <1>1 DEF HeardInv
<1>3. CASE q.how = "text" /\ SplittablePages
  <2>1. Answered(<<Made(q, q.pages[1], "none", Empty, 1)>>, named)
    BY <1>3 DEF OutOfReach
  <2>2. /\ asks' = Tail(asks) /\ parts' = parts \o <<Made(q, q.pages[1], "none", Empty, 1)>> /\ said \subseteq said'
        /\ UNCHANGED <<layout, reading, reread>>
    BY <2>1 DEF Answered
  <2>3. Grew
    BY <2>2, <1>1 DEF Grew
  <2>4. IsOwn(Head(asks))
    BY <1>1, <1>3, FrontIs
  <2>5. AsksInv' /\ PartsInv' /\ AccountInv'
    BY <1>1, <1>2, <2>2, <2>3, <2>4, OwnGrows
  <2> QED BY <1>1, <1>2, <2>2, <2>5, AskingKeeps
<1>4. CASE ~(q.how = "text" /\ SplittablePages)
  <2>1. Answered(<<>>, named)
    BY <1>4 DEF OutOfReach
  <2>2. asks' = Tail(asks) /\ parts' = parts \o <<>> /\ said' = said \cup named /\ UNCHANGED <<layout, reading, reread>>
    BY <2>1 DEF Answered
  <2>3. Grew
    BY <2>2, <1>1 DEF Grew
  <2>4. CASE IsWhole(q)
    <3>1. FromParsed(WholeAsk, <<>>, 0) = <<>>
      BY DEF FromParsed
    <3>2. IsSeq(<<>>) /\ parts' = parts \o FromParsed(WholeAsk, <<>>, 0) /\ said \subseteq said'
      BY <3>1, <2>2, EmptyIs
    <3>3. PICK es : es = <<>>
      OBVIOUS
    <3>4. IsSeq(es) /\ parts' = parts \o FromParsed(WholeAsk, es, 0)
          /\ (es # <<>> => \E h \in DOMAIN heard' : heard'[h].ask = WholeAsk /\ heard'[h].list = es)
      BY <3>2, <3>3
    <3>5. AsksInv' /\ PartsInv' /\ AccountInv'
      BY <1>1, <1>2, <2>2, <2>3, <2>4, <3>2, <3>4, WholeGrows
    <3> QED BY <1>1, <1>2, <2>2, <3>5, AskingKeeps
  <2>5. CASE ~IsWhole(q)
    <3>1. asks' = <<>> \o Tail(asks) /\ OfScans(<<>>, Scans) /\ IsSeq(<<>>) /\ DOMAIN <<>> = {} /\ Range(<<>>) = {}
      BY <1>1, <2>2, FrontIs, EmptyIs DEF OfScans
    <3>2. AsksInv' /\ PartsInv'
      BY <1>1, <1>2, <2>2, <2>3, <2>5, <3>1, Grows
    <3>3. \A x \in Range(Head(asks).pages) : x \in said'
      BY <2>2
    <3>4. \A x \in Range(Head(asks).pages) \cap FilePages : Accounted(x)'
      BY <3>3 DEF Accounted
    <3>5. said \subseteq said' /\ reading # "new"
      BY <1>1, <2>2
    <3>6. AccountInv'
      BY <1>1, <2>2, <3>1, <3>4, <3>5, AccountGrows
    <3> QED BY <1>1, <1>2, <2>2, <3>2, <3>6, AskingKeeps
  <2> QED BY <2>4, <2>5
<1> QED BY <1>3, <1>4

\* A batch answered for some of its pages: the others are asked about alone.
LEMMA BatchGrows ==
  ASSUME FileInv, asks # <<>>, Head(asks).how = "batch", reading \in {"asking", "blanks"},
         UNCHANGED <<layout, reading, said, heard, reread>>,
         NEW T \in SUBSET DOMAIN Head(asks).pages, NEW made, IsSeq(made),
         \A d \in Range(made) : \E i \in T : /\ d.page = Head(asks).pages[i] /\ d.box = "none" /\ d.from = Head(asks)
                                             /\ d.nth = i,
         \A i, j \in DOMAIN made : i # j => made[i].nth # made[j].nth,
         \A i \in T : \E d \in Range(made) : d.nth = i,
         asks' = AskAlone(Head(asks).pages, T) \o Tail(asks), parts' = parts \o made
  PROVE  FileInv'
<1> DEFINE ps == Head(asks).pages
           more == AskAlone(ps, T)
<1>1. HeardInv /\ layout \in Layout /\ IsSeq(parts)
  BY DEF FileInv, PartsInv
<1>2. IsBatch(Head(asks), Scans) /\ Places(ps, Scans) /\ IsSeq(Tail(asks))
  BY FrontIs DEF IsBatch
<1>3. OfScans(more, Scans) /\ \A p : Names(more, p) <=> \E x \in DOMAIN ps \ T : p = ps[x]
  BY <1>2, AskAloneIs
<1>4. Grew /\ HeardInv'
  BY <1>1 DEF Grew, HeardInv
<1>5. ~IsWhole(Head(asks)) /\ IsScan(Head(asks))
  BY <1>1, <1>2, AsksDiffer DEF IsScan
<1> HIDE DEF more
<1>6. IsSeq(more) /\ \A i \in DOMAIN more : Range(more[i].pages) \subseteq Range(ps)
  <2>1. \A p : Names(more, p) => p \in Range(ps)
    BY <1>3 DEF Range
  <2> QED BY <2>1, <1>3 DEF OfScans, Names
<1>7. \A x, y \in DOMAIN ps : ps[x] = ps[y] => x = y
  BY <1>2 DEF Places, IsInjective
<1>8. ASSUME NEW d \in Range(made) PROVE d.page \in Range(ps) /\ ~Names(more, d.page) /\ OfBatch(d) /\ d.from.how = "batch"
  <2>1. PICK i \in T : d.page = ps[i] /\ d.box = "none" /\ d.from = Head(asks) /\ d.nth = i
    OBVIOUS
  <2>2. d.page \in Range(ps) /\ d.page \in Scans
    BY <2>1, <1>2 DEF Places, Range
  <2>3. ~Names(more, d.page)
    BY <2>1, <1>3, <1>7
  <2> QED BY <2>1, <2>2, <2>3 DEF OfBatch
<1>9. \A i, j \in DOMAIN made : i # j => Apart2(made[i], made[j])
  <2> SUFFICES ASSUME NEW i \in DOMAIN made, NEW j \in DOMAIN made, i # j PROVE Apart2(made[i], made[j])
    OBVIOUS
  <2>1. made[i] \in Range(made) /\ made[j] \in Range(made)
    BY DEF Range
  <2>2. PICK a \in T : made[i].page = ps[a] /\ made[i].nth = a
    BY <2>1
  <2>3. PICK b \in T : made[j].page = ps[b] /\ made[j].nth = b
    BY <2>1
  <2>4. made[i].page # made[j].page
    BY <2>2, <2>3, <1>7
  <2> QED BY <2>1, <2>4, <1>8 DEF Apart2
<1>10. AsksInv' /\ PartsInv'
  <2>1. asks' = more \o Tail(asks)
    BY DEF more
  <2>2. \A d \in Range(made) : /\ d.page \in Range(Head(asks).pages) /\ ~Names(more, d.page)
                               /\ OfOwn(d) \/ OfPage(d)' \/ OfBatch(d)
    BY <1>8
  <2>3. \A i \in DOMAIN more : Range(more[i].pages) \subseteq Range(Head(asks).pages)
    BY <1>6
  <2> HIDE DEF ps
  <2> QED BY <2>1, <2>2, <2>3, <1>3, <1>4, <1>5, <1>6, <1>9, Grows
<1>11. ASSUME NEW p \in Range(ps) PROVE Accounted(p)'
  <2>1. PICK x \in DOMAIN ps : p = ps[x]
    BY DEF Range
  <2>2. CASE x \in T
    <3>1. PICK d \in Range(made) : d.nth = x
      BY <2>2
    <3>2. Range(parts') = Range(parts) \cup Range(made)
      BY <1>1, Joins
    <3>25. d \in Range(parts') /\ d.from = Head(asks)
      BY <3>1, <3>2
    <3>3. PICK i \in DOMAIN parts' : parts'[i] = d
      BY <3>25 DEF Range
    <3>4. Covered(p)'
      BY <3>25, <3>3 DEF Covered
    <3> QED BY <3>4 DEF Accounted
  <2>3. CASE x \notin T
    <3>1. Names(more, p)
      BY <2>1, <2>3, <1>3
    <3>2. PICK k \in DOMAIN more : p \in Range(more[k].pages)
      BY <3>1 DEF Names
    <3>3. Range(asks') = Range(more) \cup Range(Tail(asks))
      BY <1>2, <1>6, Joins DEF more
    <3>35. more[k] \in Range(asks')
      <4>1. more[k] \in Range(more)
        BY DEF Range
      <4> QED BY <4>1, <3>3
    <3>36. PICK j \in DOMAIN asks' : asks'[j] = more[k]
      BY <3>35 DEF Range
    <3>4. Names(asks, p)'
      BY <3>2, <3>36 DEF Names
    <3> QED BY <3>4 DEF Accounted
  <2> QED BY <2>2, <2>3
<1>12. AccountInv'
  <2>1. asks' = more \o Tail(asks) /\ reading # "new" /\ said \subseteq said'
    BY DEF more
  <2>2. \A x \in Range(Head(asks).pages) \cap FilePages : Accounted(x)'
    BY <1>11
  <2> HIDE DEF ps
  <2> QED BY <2>1, <2>2, <1>6, AccountGrows
<1>13. Answering({"batch"})
  BY DEF Answering
<1> QED BY <1>4, <1>10, <1>12, <1>13, AskingKeeps

LEMMA BatchKeeps == ASSUME FileInv, Batch PROVE FileInv'
<1> DEFINE q == Head(asks)
           ps == q.pages
           one(list, i) == Made(q, ps[i], "none", list[ItemOf(list, i)].r, i)
<1>1. asks # <<>> /\ q.how = "batch" /\ reading \in {"asking", "blanks"} /\ UNCHANGED <<layout, reading, said, heard, reread>>
  BY DEF Batch, Answering
<1>2. CASE asks' = AskAlone(ps, {}) \o Tail(asks) /\ UNCHANGED parts
  <2>1. IsSeq(<<>>) /\ DOMAIN <<>> = {} /\ Range(<<>>) = {} /\ parts' = parts \o <<>>
    BY <1>1, <1>2, EmptyIs, FrontIs
  <2>2. PICK T \in SUBSET DOMAIN ps : T = {}
    OBVIOUS
  <2>3. asks' = AskAlone(ps, T) \o Tail(asks)
    BY <2>2, <1>2
  <2>4. PICK made : made = <<>>
    OBVIOUS
  <2>5. IsSeq(made) /\ DOMAIN made = {} /\ Range(made) = {} /\ parts' = parts \o made
    BY <2>1, <2>4
  <2> QED BY <2>2, <2>3, <2>5, <1>1, BatchGrows
<1>3. ASSUME NEW list \in [DOMAIN ps -> Item],
             asks' = AskAlone(ps, Settled(list)) \o Tail(asks),
             parts' = parts \o [k \in 1 .. Cardinality(Settled(list)) |-> one(list, InOrder(Settled(list))[k])]
      PROVE  FileInv'
  <2> DEFINE T == Settled(list)
             N == Cardinality(T)
             made == [k \in 1 .. N |-> one(list, InOrder(T)[k])]
  <2>1. T \in SUBSET DOMAIN ps
    BY DEF Settled
  <2>2. T \in SUBSET Nat /\ IsFiniteSet(T)
    <3>1. ps \in Seq(Range(ps))
      BY <1>1, FrontIs DEF IsBatch, Places, IsSeq
    <3>2. DOMAIN ps = 1 .. Len(ps) /\ Len(ps) \in Nat
      BY <3>1
    <3>3. T \in SUBSET (1 .. Len(ps)) /\ 1 .. Len(ps) \subseteq Nat
      BY <3>2, <2>1
    <3>35. IsFiniteSet(1 .. Len(ps))
      BY <3>2, FS_Interval
    <3>4. IsFiniteSet(T)
      BY <3>3, <3>35, FS_Subset
    <3> QED BY <3>3, <3>4
  <2> HIDE DEF T
  <2>3. N \in Nat /\ InOrder(T) \in [1 .. N -> T] /\ Range(InOrder(T)) = T /\ IsInjective(InOrder(T))
    BY <2>2, InOrderIs
  <2> HIDE DEF N
  <2>4. ASSUME NEW k \in 1 .. N
        PROVE  /\ InOrder(T)[k] \in T /\ made[k].page = ps[InOrder(T)[k]] /\ made[k].box = "none" /\ made[k].from = q
               /\ made[k].nth = InOrder(T)[k]
    BY <2>3 DEF Made
  <2>5. IsSeq(made) /\ DOMAIN made = 1 .. N
    <3>1. made \in Seq({one(list, InOrder(T)[k]) : k \in 1 .. N})
      BY <2>3
    <3> QED BY <3>1, SeqIs
  <2>6. parts' = parts \o made
    BY <1>3 DEF T, N
  <2> HIDE DEF made
  <2>7. \A d \in Range(made) : \E i \in T : d.page = ps[i] /\ d.box = "none" /\ d.from = q /\ d.nth = i
    BY <2>4, <2>5 DEF Range
  <2>8. \A i, j \in DOMAIN made : i # j => made[i].nth # made[j].nth
    BY <2>3, <2>4, <2>5 DEF IsInjective
  <2>9. ASSUME NEW i \in T PROVE \E d \in Range(made) : d.nth = i
    <3>1. PICK k \in 1 .. N : InOrder(T)[k] = i
      BY <2>3 DEF Range
    <3>2. made[k] \in Range(made) /\ made[k].nth = i
      BY <3>1, <2>4, <2>5 DEF Range
    <3> QED BY <3>2
  <2>10. asks' = AskAlone(ps, T) \o Tail(asks)
    BY <1>3 DEF T
  <2> QED BY <1>1, <2>1, <2>5, <2>6, <2>7, <2>8, <2>9, <2>10, BatchGrows
<1> QED BY <1>2, <1>3 DEF Batch

\* What is asked of a file first.
LEMMA Starts ==
  ASSUME FileInv, reading = "new", NEW qs, NEW named, Goes("asking", qs, named), IsSeq(qs),
         \A i \in DOMAIN qs : (IsWhole(qs[i]) /\ Len(qs) = 1) \/ IsOwn(qs[i]) \/ (IsScan(qs[i]) /\ TextPages = {}),
         \A i, j \in DOMAIN qs : i # j => Range(qs[i].pages) \cap Range(qs[j].pages) = {},
         \A p \in FilePages : p \in named \/ Names(qs, p) \/ (TextPages # {} /\ p \in Blanks) \/ (p \in TextPages /\ ~SplittablePages)
  PROVE  FileInv'
<1>1. reading' = "asking" /\ asks' = qs /\ said' = said \cup named /\ UNCHANGED <<layout, parts, heard, reread>>
  BY DEF Goes
<1>2. layout \in Layout /\ HeardInv /\ parts = <<>> /\ IsSeq(parts)
  BY DEF FileInv, PartsInv
<1>3. RereadInv' /\ HeardInv'
  BY <1>1, <1>2, RereadKeeps DEF HeardInv
<1>4. /\ TextPages' = TextPages /\ Blanks' = Blanks /\ FilePages' = FilePages /\ SplittablePages' = SplittablePages
      /\ \A a : IsWhole(a)' = IsWhole(a) /\ IsOwn(a)' = IsOwn(a) /\ IsScan(a)' = IsScan(a)
  BY <1>1, LayoutKeeps
<1>5. AsksInv'
  <2>1. \A i \in DOMAIN qs : \A a : a = qs[i] => /\ IsWhole(a)' \/ IsOwn(a)' \/ IsScan(a)'
                                                 /\ IsWhole(a)' => Len(qs) = 1
                                                 /\ ~(IsScan(a)' /\ TextPages # {})
    <3> SUFFICES ASSUME NEW i \in DOMAIN qs, NEW a, a = qs[i]
                 PROVE  (IsWhole(a) \/ IsOwn(a) \/ IsScan(a)) /\ (IsWhole(a) => Len(qs) = 1) /\ ~(IsScan(a) /\ TextPages # {})
      BY <1>4
    <3>1. (IsWhole(a) /\ Len(qs) = 1) \/ IsOwn(a) \/ (IsScan(a) /\ TextPages = {})
      OBVIOUS
    <3>2. (IsWhole(a) => ~IsOwn(a) /\ ~IsScan(a)) /\ (IsOwn(a) => ~IsScan(a))
      BY <1>2, AsksDiffer
    <3> QED BY <3>1, <3>2
  <2>2. \A i \in DOMAIN asks' : /\ IsWhole(asks[i])' \/ IsOwn(asks[i])' \/ IsScan(asks[i])'
                                /\ IsWhole(asks[i])' => Len(asks') = 1
                                /\ ~(IsScan(asks[i])' /\ TextPages # {})
    BY <1>1, <2>1 DEF IsOwn, IsScan, IsWhole, IsAlone, IsBatch, Places, IsSeq
  <2>3. IsSeq(asks') /\ \A i, j \in DOMAIN asks' : i # j => Range(asks'[i].pages) \cap Range(asks'[j].pages) = {}
    BY <1>1
  <2>4. parts' = <<>>
    BY <1>1, <1>2
  <2> QED BY <2>2, <2>3, <2>4, <1>1, <1>4 DEF AsksInv
<1>6. PartsInv'
  <2>1. parts' = <<>> /\ DOMAIN parts' = {} /\ IsSeq(parts')
    BY <1>1, <1>2, EmptyIs
  <2> QED BY <2>1, <1>1 DEF PartsInv
<1>7. AccountInv'
  <2> SUFFICES ASSUME NEW p \in FilePages PROVE Accounted(p)'
    BY <1>4 DEF AccountInv
  <2>1. CASE p \in named
    <3>1. p \in said'
      BY <2>1, <1>1
    <3> QED BY <3>1 DEF Accounted
  <2>2. CASE Names(qs, p)
    <3>1. Names(asks, p)'
      BY <2>2, <1>1 DEF Names
    <3> QED BY <3>1 DEF Accounted
  <2>3. CASE (TextPages # {} /\ p \in Blanks) \/ (p \in TextPages /\ ~SplittablePages)
    BY <2>3, <1>1, <1>4 DEF Accounted
  <2> QED BY <2>1, <2>2, <2>3
<1> QED BY <1>1, <1>2, <1>3, <1>5, <1>6, <1>7 DEF FileInv

\* The one question, of the whole file, is a start.
LEMMA WholeStarts ==
  ASSUME FileInv, reading = "new", Together, NEW named, Goes("asking", <<WholeAsk>>, named),
         \A p \in FilePages : p \in named \/ p \in Range(WholeAsk.pages) \/ (TextPages # {} /\ p \in Blanks) \/ (p \in TextPages /\ ~SplittablePages)
  PROVE  FileInv'
<1>1. PICK qs : qs = <<WholeAsk>>
  OBVIOUS
<1>2. IsSeq(qs) /\ DOMAIN qs = {1} /\ qs[1] = WholeAsk /\ Len(qs) = 1
  BY <1>1, OneIs
<1>3. IsWhole(qs[1])
  BY <1>2 DEF IsWhole
<1>4. \A p \in Range(WholeAsk.pages) : Names(qs, p)
  BY <1>2 DEF Names
<1>5. Goes("asking", qs, named)
  BY <1>1
<1>6. \A i \in DOMAIN qs : IsWhole(qs[i]) /\ Len(qs) = 1
  BY <1>2, <1>3
<1>7. \A i, j \in DOMAIN qs : i # j => Range(qs[i].pages) \cap Range(qs[j].pages) = {}
  BY <1>2
<1> QED BY <1>2, <1>4, <1>5, <1>6, <1>7, Starts

LEMMA TextAsksIs ==
  ASSUME layout \in Layout, SplittablePages
  PROVE  /\ IsSeq(TextAsks) /\ \A i \in DOMAIN TextAsks : IsOwn(TextAsks[i])
         /\ \A i, j \in DOMAIN TextAsks : i # j => Range(TextAsks[i].pages) \cap Range(TextAsks[j].pages) = {}
         /\ \A p \in TextPages : Names(TextAsks, p)
<1> DEFINE N == Cardinality(TextPages)
           q(i) == Ask("text", <<InOrder(TextPages)[i]>>)
<1>1. N \in Nat /\ InOrder(TextPages) \in [1 .. N -> TextPages] /\ Range(InOrder(TextPages)) = TextPages /\ IsInjective(InOrder(TextPages))
  BY PagesIs, InOrderIs
<1>2. TextAsks = [i \in 1 .. N |-> q(i)]
  BY DEF TextAsks
<1> HIDE DEF N
<1>3. ASSUME NEW i \in 1 .. N PROVE IsOwn(q(i)) /\ Range(q(i).pages) = {InOrder(TextPages)[i]} /\ InOrder(TextPages)[i] \in TextPages
  <2>1. InOrder(TextPages)[i] \in TextPages /\ OwnPages = TextPages
    BY <1>1 DEF OwnPages
  <2>2. q(i).pages = <<InOrder(TextPages)[i]>>
    BY DEF Ask
  <2> QED BY <2>1, <2>2, OneIs DEF IsOwn
<1> HIDE DEF q
<1>4. IsSeq(TextAsks) /\ DOMAIN TextAsks = 1 .. N
  <2>1. TextAsks \in Seq({q(i) : i \in 1 .. N})
    BY <1>1, <1>2
  <2> QED BY <2>1, <1>2, SeqIs
<1>5. \A i \in 1 .. N : TextAsks[i] = q(i)
  BY <1>2
<1>6. \A i, j \in 1 .. N : i # j => Range(TextAsks[i].pages) \cap Range(TextAsks[j].pages) = {}
  <2> SUFFICES ASSUME NEW i \in 1 .. N, NEW j \in 1 .. N, i # j PROVE Range(q(i).pages) \cap Range(q(j).pages) = {}
    BY <1>5
  <2>1. InOrder(TextPages)[i] # InOrder(TextPages)[j]
    BY <1>1 DEF IsInjective
  <2> QED BY <2>1, <1>3
<1>7. ASSUME NEW p \in TextPages PROVE Names(TextAsks, p)
  <2>1. PICK i \in 1 .. N : InOrder(TextPages)[i] = p
    BY <1>1 DEF Range
  <2> QED BY <2>1, <1>3, <1>4, <1>5 DEF Names
<1> QED BY <1>3, <1>4, <1>5, <1>6, <1>7

LEMMA ReadPartsKeeps == ASSUME FileInv, ReadParts PROVE FileInv'
<1>1. reading = "new" /\ layout \in Layout
  BY DEF ReadParts, FileInv
<1>2. CASE layout = Photo
  <2>1. WholeAsk = Ask("image", <<0>>) /\ Together /\ FilePages = {0}
    BY <1>1, <1>2, WaysIs DEF WholeAsk, FilePages
  <2>2. Goes("asking", <<WholeAsk>>, {})
    BY <1>2, <2>1 DEF ReadParts
  <2>3. Range(WholeAsk.pages) = {0}
    BY <2>1, OneIs DEF Ask
  <2>4. PICK named : Goes("asking", <<WholeAsk>>, named)
    BY <2>2
  <2> QED BY <1>1, <2>1, <2>3, <2>4, WholeStarts
<1>3. CASE layout # Photo /\ TextPages # {}
  <2>1. Goes("asking", TextAsks, Beyond(TextMax)) /\ FilePages = 1 .. layout.pages
    BY <1>3 DEF ReadParts, FilePages
  <2>2. \A p \in FilePages : p \in TextPages \/ p \in Blanks \/ p \in Beyond(TextMax)
    BY <1>1, <2>1, PagesIs
  <2>3. CASE SplittablePages
    <3>1. PICK qs, named : qs = TextAsks /\ named = Beyond(TextMax)
      OBVIOUS
    <3>2. /\ IsSeq(qs) /\ \A i \in DOMAIN qs : IsOwn(qs[i])
          /\ \A i, j \in DOMAIN qs : i # j => Range(qs[i].pages) \cap Range(qs[j].pages) = {}
          /\ \A p \in TextPages : Names(qs, p)
      BY <1>1, <2>3, <3>1, TextAsksIs
    <3>3. Goes("asking", qs, named) /\ \A p \in FilePages : p \in named \/ Names(qs, p) \/ (TextPages # {} /\ p \in Blanks)
      BY <1>3, <2>1, <2>2, <3>1, <3>2
    <3> QED BY <1>1, <3>2, <3>3, Starts
  <2>4. CASE ~SplittablePages
    <3>1. TextAsks = <<WholeAsk>> /\ Together
      BY <1>3, <2>4 DEF TextAsks, WholeAsk, Together
    <3>2. PICK named : named = Beyond(TextMax)
      OBVIOUS
    <3>3. Goes("asking", <<WholeAsk>>, named)
      BY <2>1, <3>1, <3>2
    <3> QED BY <1>1, <1>3, <2>2, <2>4, <3>1, <3>2, <3>3, WholeStarts
  <2> QED BY <2>3, <2>4
<1>4. CASE layout # Photo /\ TextPages = {}
  <2> DEFINE n == Least(layout.pages, DrawnMax)
  <2>1. Goes("asking", ScanAsks(n), Beyond(DrawnMax)) /\ FilePages = 1 .. layout.pages
    BY <1>4 DEF ReadParts, FilePages
  <2>2. n \in Nat /\ n <= layout.pages /\ n \in {layout.pages, DrawnMax} /\ layout.pages \in Nat /\ DrawnMax \in Nat
        /\ n <= DrawnMax
    BY <1>1, PagesIs, LeastIs
  <2>3. \A p \in FilePages : p \in 1 .. n \/ p \in Beyond(DrawnMax)
    BY <2>1, <2>2 DEF Beyond
  <2>4. CASE Together
    <3>1. ScanAsks(n) = <<WholeAsk>>
      BY <1>1, <1>4, <2>4, WholeIs
    <3>2. Range(WholeAsk.pages) = 1 .. n
      <4>1. WholeAsk.how \in {"image", "pages"} /\ WholeAsk = Ask(WholeAsk.how, WholeAsk.pages)
        BY <1>1, <1>4, <2>4, WholeIs
      <4>2. CASE WholeAsk.how = "pages"
        <5>1. WholeAsk.pages = Upto(n)
          BY <1>1, <2>4, <4>2, WholeIs
        <5> QED BY <5>1, <2>2, UptoIs
      <4>3. CASE WholeAsk.how = "image"
        <5>1. WholeAsk.pages = <<1>> /\ n = 1
          BY <1>1, <1>4, <2>4, <4>3, WholeIs
        <5>2. Range(<<1>>) = {1} /\ 1 .. 1 = {1}
          BY OneIs
        <5> QED BY <5>1, <5>2
      <4> QED BY <4>1, <4>2, <4>3
    <3>3. PICK named : named = Beyond(DrawnMax)
      OBVIOUS
    <3>4. Goes("asking", <<WholeAsk>>, named)
      BY <2>1, <3>1, <3>3
    <3> QED BY <1>1, <2>3, <2>4, <3>2, <3>3, <3>4, WholeStarts
  <2>5. CASE ~Together
    <3>1. n > TogetherMax /\ Scans = 1 .. n
      BY <1>1, <1>4, <2>2, <2>5, PagesIs DEF Together, Scans
    <3>2. PICK qs, named : qs = Batched(Upto(n)) /\ named = Beyond(DrawnMax)
      OBVIOUS
    <3>3. Goes("asking", qs, named)
      BY <2>1, <3>1, <3>2 DEF ScanAsks
    <3>4. Upto(n) \in Seq(Scans) /\ IsInjective(Upto(n)) /\ Range(Upto(n)) = 1 .. n
      BY <2>2, <3>1, UptoIs
    <3>5. OfScans(qs, Scans) /\ \A p : Names(qs, p) <=> p \in 1 .. n
      BY <3>2, <3>4, BatchedIs
    <3>6. /\ IsSeq(qs) /\ \A i \in DOMAIN qs : IsScan(qs[i]) /\ TextPages = {}
          /\ \A i, j \in DOMAIN qs : i # j => Range(qs[i].pages) \cap Range(qs[j].pages) = {}
      BY <3>5, <1>4 DEF OfScans, IsScan
    <3> QED BY <1>1, <2>3, <3>2, <3>3, <3>5, <3>6, Starts
  <2> QED BY <2>4, <2>5
<1> QED BY <1>2, <1>3, <1>4

LEMMA UnreadableKeeps == ASSUME FileInv, Unreadable PROVE FileInv'
<1>1. reading = "new" /\ layout \in Layout /\ layout # Photo /\ HeardInv /\ parts = <<>>
  BY DEF Unreadable, FileInv, PartsInv
<1>2. reading' = "read" /\ asks' = <<>> /\ said' = said \cup 1 .. layout.pages /\ UNCHANGED <<layout, parts, heard, reread>>
  BY DEF Unreadable, Goes
<1>3. RereadInv' /\ HeardInv' /\ FilePages' = 1 .. layout.pages
  BY <1>1, <1>2, RereadKeeps DEF HeardInv, FilePages, Photo
<1>4. AsksInv' /\ PartsInv'
  <2>1. DOMAIN asks' = {} /\ IsSeq(asks') /\ DOMAIN parts' = {} /\ IsSeq(parts') /\ parts' = <<>>
    BY <1>1, <1>2, EmptyIs
  <2> QED BY <2>1, <1>2 DEF AsksInv, PartsInv
<1>5. AccountInv'
  <2>1. \A p \in 1 .. layout.pages : p \in said'
    BY <1>2
  <2> QED BY <2>1, <1>3 DEF AccountInv, Accounted
<1> QED BY <1>1, <1>2, <1>3, <1>4, <1>5 DEF FileInv

\* The first of the pages without text.
LEMMA FirstOnesIs ==
  ASSUME NEW S \in SUBSET Nat, IsFiniteSet(S), NEW n \in Nat, n <= Cardinality(S)
  PROVE  LET drawn == SubSeq(InOrder(S), 1, n) IN drawn \in Seq(S) /\ IsInjective(drawn)
<1> DEFINE s == InOrder(S)
<1>1. Cardinality(S) \in Nat /\ s \in [1 .. Cardinality(S) -> S] /\ IsInjective(s)
  BY InOrderIs
<1>2. s \in Seq(S) /\ Len(s) = Cardinality(S)
  BY <1>1
<1> HIDE DEF s
<1>3. CASE n = 0
  <2>1. SubSeq(s, 1, n) = <<>>
    BY <1>2, <1>3
  <2>2. IsInjective(<<>>) /\ <<>> \in Seq(S)
    BY EmptyIs DEF IsInjective
  <2> QED BY <2>1, <2>2 DEF s
<1>4. CASE n # 0
  <2>1. 1 \in 1 .. Len(s) /\ n \in 1 .. Len(s)
    BY <1>1, <1>2, <1>4
  <2>2. Places(SubSeq(s, 1, n), S)
    BY <1>1, <1>2, <2>1, SliceIs
  <2>3. SubSeq(s, 1, n) \in Seq(S)
    <3>1. SubSeq(s, 1, n) \in Seq(Range(SubSeq(s, 1, n))) /\ Range(SubSeq(s, 1, n)) \subseteq S
      BY <2>2 DEF Places, IsSeq
    <3> QED BY <3>1
  <2> QED BY <2>2, <2>3 DEF Places, s
<1> QED BY <1>3, <1>4

LEMMA ReadOutKeeps == ASSUME FileInv, ReadOut PROVE FileInv'
<1>1. reading \in {"asking", "blanks"} /\ asks = <<>> /\ layout \in Layout /\ HeardInv /\ AsksInv /\ PartsInv /\ AccountInv
  BY DEF ReadOut, FileInv
<1>2. ASSUME NEW to, NEW qs, NEW named, Goes(to, qs, named), to \in {"blanks", "read"}
      PROVE  /\ reading' = to /\ asks' = qs /\ said' = said \cup named /\ UNCHANGED <<layout, parts, heard, reread>>
             /\ HeardInv' /\ RereadInv' /\ Grew /\ \A i \in DOMAIN parts' : PartOk(parts[i])'
             /\ \A i, j \in DOMAIN parts' : i # j => Apart2(parts[i], parts[j])'
             /\ TextPages' = TextPages /\ Blanks' = Blanks /\ FilePages' = FilePages /\ SplittablePages' = SplittablePages
             /\ \A a : IsWhole(a)' = IsWhole(a) /\ IsOwn(a)' = IsOwn(a) /\ IsScan(a)' = IsScan(a)
  <2>1. reading' = to /\ asks' = qs /\ said' = said \cup named /\ UNCHANGED <<layout, parts, heard, reread>>
    BY <1>2 DEF Goes
  <2>2. HeardInv' /\ RereadInv' /\ Grew
    BY <1>1, <2>1, RereadKeeps DEF HeardInv, Grew
  <2>3. \A i \in DOMAIN parts' : PartOk(parts[i])'
    <3>1. \A i \in DOMAIN parts : \A d : d = parts[i] => PartOk(d)'
      BY <1>1, <2>2, PartKeeps DEF PartsInv
    <3> QED BY <3>1, <2>1 DEF PartOk, OfWhole, OfOwn, OfPage, OfBatch, Drawn, MadeFrom
  <2>4. \A i, j \in DOMAIN parts' : i # j => Apart2(parts[i], parts[j])'
    BY <1>1, <2>1 DEF PartsInv, Apart2
  <2> QED BY <2>1, <2>2, <2>3, <2>4, LayoutKeeps
<1>3. CASE reading = "asking" /\ TextPages # {} /\ Blanks # {}
  <2>1. PICK n \in {0, Least(Cardinality(Blanks), DrawnMax)} :
          Goes("blanks", Batched(SubSeq(InOrder(Blanks), 1, n)), Blanks \ Range(SubSeq(InOrder(Blanks), 1, n)))
    BY <1>3 DEF ReadOut
  <2>2. Blanks \in SUBSET Nat /\ IsFiniteSet(Blanks) /\ Cardinality(Blanks) \in Nat /\ Scans = Blanks /\ DrawnMax \in Nat
    BY <1>1, <1>3, PagesIs, WaysIs, FS_CardinalityType
  <2>3. n \in Nat /\ n <= Cardinality(Blanks)
    BY <2>1, <2>2, LeastIs
  <2>4. PICK drawn : drawn = SubSeq(InOrder(Blanks), 1, n)
    OBVIOUS
  <2>5. drawn \in Seq(Blanks) /\ IsInjective(drawn)
    BY <2>2, <2>3, <2>4, FirstOnesIs
  <2>6. OfScans(Batched(drawn), Scans) /\ \A p : Names(Batched(drawn), p) <=> p \in Range(drawn)
    BY <2>2, <2>5, BatchedIs
  <2>7. PICK qs : qs = Batched(drawn)
    OBVIOUS
  <2>8. Goes("blanks", qs, Blanks \ Range(drawn))
    BY <2>1, <2>4, <2>7
  <2>9. PICK to, named : to = "blanks" /\ named = Blanks \ Range(drawn)
    OBVIOUS
  <2>10. /\ reading' = "blanks" /\ asks' = qs /\ said' = said \cup named /\ UNCHANGED <<layout, parts, heard, reread>>
         /\ HeardInv' /\ RereadInv' /\ \A i \in DOMAIN parts' : PartOk(parts[i])'
         /\ \A i, j \in DOMAIN parts' : i # j => Apart2(parts[i], parts[j])'
         /\ TextPages' = TextPages /\ Blanks' = Blanks /\ FilePages' = FilePages /\ SplittablePages' = SplittablePages
         /\ \A a : IsWhole(a)' = IsWhole(a) /\ IsOwn(a)' = IsOwn(a) /\ IsScan(a)' = IsScan(a)
    BY <1>2, <2>8, <2>9
  <2>11. AsksInv'
    <3>1. \A i \in DOMAIN qs : \A a : a = qs[i] => IsScan(a)' /\ ~IsWhole(a)'
      <4> SUFFICES ASSUME NEW i \in DOMAIN qs, NEW a, a = qs[i] PROVE IsScan(a) /\ ~IsWhole(a)
        BY <2>10
      <4>1. IsScan(a)
        BY <2>6, <2>7 DEF OfScans, IsScan
      <4> QED BY <4>1, <1>1, AsksDiffer
    <3>2. \A i \in DOMAIN asks' : IsScan(asks[i])' /\ ~IsWhole(asks[i])'
      BY <3>1, <2>10 DEF IsScan, IsWhole, IsAlone, IsBatch, Places, IsSeq
    <3>3. IsSeq(asks') /\ \A i, j \in DOMAIN asks' : i # j => Range(asks'[i].pages) \cap Range(asks'[j].pages) = {}
      BY <2>6, <2>7, <2>10 DEF OfScans
    <3> QED BY <3>2, <3>3, <2>10 DEF AsksInv
  <2>12. PartsInv'
    <3>1. \A i \in DOMAIN parts' : ~Names(asks, parts[i].page)'
      <4>1. \A p : Names(qs, p) => p \in Blanks
        <5>1. Range(drawn) \subseteq Blanks
          BY <2>5, SeqIs
        <5> QED BY <5>1, <2>6, <2>7
      <4>2. \A i \in DOMAIN parts : ~Names(qs, parts[i].page)
        BY <4>1, <1>1, <1>3 DEF PartsInv
      <4> QED BY <4>2, <2>10 DEF Names
    <3>2. IsSeq(parts')
      BY <1>1, <2>10 DEF PartsInv
    <3> QED BY <3>1, <3>2, <2>10 DEF PartsInv
  <2>13. AccountInv'
    <3> SUFFICES ASSUME NEW p \in FilePages PROVE Accounted(p)'
      BY <2>10 DEF AccountInv
    <3>1. Accounted(p) /\ ~Names(asks, p)
      BY <1>1, EmptyIs DEF AccountInv, Names
    <3>2. CASE p \in said
      <4>1. p \in said'
        BY <3>2, <2>10
      <4> QED BY <4>1 DEF Accounted
    <3>3. CASE Covered(p)
      <4>1. Covered(p)'
        BY <3>3, <2>10 DEF Covered
      <4> QED BY <4>1 DEF Accounted
    <3>4. CASE p \in TextPages /\ ~SplittablePages
      BY <3>4, <2>10 DEF Accounted
    <3>5. CASE p \in Blanks /\ p \in Range(drawn)
      <4>1. Names(qs, p)
        BY <3>5, <2>6, <2>7
      <4>2. Names(asks, p)'
        BY <4>1, <2>10 DEF Names
      <4> QED BY <4>2 DEF Accounted
    <3>6. CASE p \in Blanks /\ p \notin Range(drawn)
      <4>1. p \in said'
        BY <3>6, <2>9, <2>10
      <4> QED BY <4>1 DEF Accounted
    <3> QED BY <1>3, <3>1, <3>2, <3>3, <3>4, <3>5, <3>6 DEF Accounted
  <2> QED BY <1>1, <2>10, <2>11, <2>12, <2>13 DEF FileInv
<1>4. CASE ~(reading = "asking" /\ TextPages # {} /\ Blanks # {})
  <2>1. Goes("read", <<>>, {})
    BY <1>4 DEF ReadOut
  <2>2. PICK to, qs, named : to = "read" /\ qs = <<>> /\ named = {}
    OBVIOUS
  <2>3. /\ reading' = "read" /\ asks' = <<>> /\ said' = said /\ UNCHANGED <<layout, parts, heard, reread>>
        /\ HeardInv' /\ RereadInv' /\ \A i \in DOMAIN parts' : PartOk(parts[i])'
        /\ \A i, j \in DOMAIN parts' : i # j => Apart2(parts[i], parts[j])'
        /\ TextPages' = TextPages /\ Blanks' = Blanks /\ FilePages' = FilePages /\ SplittablePages' = SplittablePages
    <3>1. Goes(to, qs, named) /\ to \in {"blanks", "read"}
      BY <2>1, <2>2
    <3> HIDE <2>1
    <3> QED BY <1>2, <2>2, <3>1
  <2>4. DOMAIN asks' = {} /\ IsSeq(asks') /\ \A p : ~Names(asks', p)
    BY <2>3, EmptyIs DEF Names
  <2>5. AsksInv'
    BY <2>3, <2>4 DEF AsksInv
  <2>6. PartsInv'
    <3>1. \A i \in DOMAIN parts' : ~Names(asks, parts[i].page)'
      BY <2>4 DEF Names
    <3>2. IsSeq(parts')
      BY <1>1, <2>3 DEF PartsInv
    <3> QED BY <3>1, <3>2, <2>3 DEF PartsInv
  <2>7. AccountInv'
    <3> SUFFICES ASSUME NEW p \in FilePages PROVE Accounted(p)'
      BY <2>3 DEF AccountInv
    <3>1. Accounted(p) /\ ~Names(asks, p)
      BY <1>1, EmptyIs DEF AccountInv, Names
    <3>2. CASE Covered(p)
      <4>1. Covered(p)'
        BY <3>2, <2>3 DEF Covered
      <4> QED BY <4>1 DEF Accounted
    <3>3. CASE p \in said \/ (p \in TextPages /\ ~SplittablePages) \/ (parts = <<>> /\ asks = <<>> /\ TextPages = {} /\ reading # "blanks")
      BY <3>3, <2>3 DEF Accounted
    <3> QED BY <1>4, <3>1, <3>2, <3>3 DEF Accounted
  <2> QED BY <1>1, <2>3, <2>5, <2>6, <2>7 DEF FileInv
<1> QED BY <1>3, <1>4

-----------------------------------------------------------------------------
(* A row read again.                                                       *)

LEMMA NearestIs ==
  ASSUME NEW es, IsSeq(es), NEW box, Nearest(es, box) # 0
  PROVE  /\ Nearest(es, box) \in DOMAIN es
         /\ box = "none" => Nearest(es, box) = 1
         /\ box # "none" => es[Nearest(es, box)].box = box
<1> DEFINE at == {k \in DOMAIN es : IF box = "none" THEN k = 1 ELSE es[k].box = box}
<1>1. at # {} /\ Nearest(es, box) = CHOOSE k \in at : \A l \in at : k <= l
  BY DEF Nearest
<1>2. at \in SUBSET Nat
  BY SomeIs
<1> HIDE DEF at
<1>3. Nearest(es, box) \in at
  BY <1>1, <1>2, LeastOfSome
<1> QED BY <1>3 DEF at

\* What a row may be re-read as: nothing another row was made from, and nothing of another page.
TakesOwn(which, q, k) ==
  k # 0 => /\ \A i \in DOMAIN parts \ {which} : ~(parts[i].from = q /\ parts[i].nth = k)
           /\ (Len(q.pages) = 1 /\ parts[which].page # 0) => q.pages = <<parts[which].page>>

\* The question a row was made from is answered as it was, and the row's own receipt lies nearest.
LEMMA SameAnswer ==
  ASSUME FileInv, NEW which \in DOMAIN parts, NEW q, NEW at, Drawn(parts[which], q, at), q.how # "batch",
         q.how = "pages" => parts[which].page = 0,
         NEW es \in May(q), NEW i \in DOMAIN parts \ {which}, Nearest(es, parts[which].box) # 0
  PROVE  ~(parts[i].from = q /\ parts[i].nth = Nearest(es, parts[which].box))
<1> DEFINE d == parts[which]
           k == Nearest(es, d.box)
<1>1. HeardInv /\ Apart2(d, parts[i])
  BY DEF FileInv, PartsInv
<1>2. PICK h \in DOMAIN heard : heard[h].ask = q /\ MadeFrom(d, q, heard[h].list, at)
  BY DEF Drawn
<1>3. IsSeq(es) /\ (es = <<>> \/ es = heard[h].list)
  BY <1>1, <1>2, MayIs
<1>4. /\ k \in DOMAIN es
      /\ d.box = "none" => k = 1
      /\ d.box # "none" => es[k].box = d.box
  BY <1>3, NearestIs
<1> HIDE DEF k, d
<1>5. es = heard[h].list
  BY <1>3, <1>4, EmptyIs
<1>6. MadeFrom(d, q, es, at)
  BY <1>2, <1>5
<1>7. k = d.nth
  <2>1. CASE ~IsSplit(q, es)
    BY <2>1, <1>4, <1>6 DEF MadeFrom
  <2>2. CASE IsSplit(q, es)
    <3>1. q.how \in {"image", "pages"} /\ d.nth \in DOMAIN es
      BY <2>2, <1>4, <1>6, SplitApart DEF MadeFrom
    <3>2. CASE q.how = "pages"
      <4>1. d.page = FirstPage(es[d.nth]) /\ d.page = 0
        BY <2>2, <3>2, <1>6 DEF MadeFrom, d
      <4>2. FirstPage(es[d.nth]) \in 1 .. Len(q.pages)
        BY <2>2, <3>1, <3>2, SplitApart
      <4> QED BY <4>1, <4>2
    <3>3. CASE q.how = "image"
      <4>1. d.box = es[d.nth].box /\ d.box # "none"
        <5>1. d.box = es[d.nth].box
          BY <2>2, <3>3, <1>6 DEF MadeFrom
        <5> QED BY <5>1, <2>2, <3>1, <3>3, SplitApart
      <4>2. es[k].box = es[d.nth].box
        BY <4>1, <1>4
      <4> QED BY <4>2, <2>2, <3>1, <3>3, <1>4, SplitApart
    <3> QED BY <3>1, <3>2, <3>3
  <2> QED BY <2>1, <2>2
<1>8. d.from = q
  BY <1>6 DEF MadeFrom
<1> QED BY <1>1, <1>7, <1>8 DEF Apart2, k, d

\* Each row is of the whole file, or of a page that is text of its own or a scan.
LEMMA KindIs ==
  ASSUME FileInv, NEW which \in DOMAIN parts
  PROVE  \/ /\ OfWhole(parts[which]) /\ Together /\ parts[which].from = WholeAsk /\ Drawn(parts[which], WholeAsk, 0)
            /\ WholeAsk.how # "pages" => parts[which].page = 0
         \/ OfOwn(parts[which]) /\ parts[which].page \in OwnPages
         \/ parts[which].page \in Scans /\ (OfPage(parts[which]) \/ OfBatch(parts[which]))
<1>1. PartOk(parts[which])
  BY DEF FileInv, PartsInv
<1>2. ASSUME OfWhole(parts[which])
      PROVE  /\ Together /\ parts[which].from = WholeAsk /\ Drawn(parts[which], WholeAsk, 0)
             /\ WholeAsk.how # "pages" => parts[which].page = 0
  BY <1>2 DEF OfWhole, Drawn, MadeFrom
<1> QED BY <1>1, <1>2 DEF PartOk, OfOwn, OfPage, OfBatch

\* Its page read by itself.
LEMMA ScannedPageOwn ==
  ASSUME FileInv, NEW which \in DOMAIN parts, NEW es \in May(Ask("image", <<parts[which].page>>)),
         parts[which].page \in Scans \/ (Scans = {} /\ OwnPages = {} /\ Together /\ WholeAsk.how # "image")
  PROVE  TakesOwn(which, Ask("image", <<parts[which].page>>), Nearest(es, parts[which].box))
<1> DEFINE q == Ask("image", <<parts[which].page>>)
           k == Nearest(es, parts[which].box)
<1>1. layout \in Layout /\ PartsInv /\ q.how = "image" /\ q.pages = <<parts[which].page>>
  BY DEF FileInv, Ask
<1> SUFFICES ASSUME k # 0, NEW i \in DOMAIN parts \ {which}, parts[i].from = q, parts[i].nth = k PROVE FALSE
  BY <1>1 DEF TakesOwn
<1>2. PartOk(parts[i]) /\ PartOk(parts[which]) /\ Apart2(parts[which], parts[i])
  BY <1>1 DEF PartsInv
<1>3. CASE parts[which].page \in Scans
  <2>1. PICK e : e.page = parts[which].page /\ e.from = q
    <3>1. [page |-> parts[which].page, from |-> q].page = parts[which].page /\ [page |-> parts[which].page, from |-> q].from = q
      OBVIOUS
    <3> QED BY <3>1
  <2>2. ByPage(e)
    BY <2>1, <1>3 DEF ByPage
  <2>3. parts[i].page = parts[which].page
    BY <2>1, <2>2, <1>1, <1>2, FromTellsPage
  <2>4. parts[which].from = q
    BY <2>3, <1>2 DEF Apart2
  <2>5. \E at : Drawn(parts[which], q, at)
    <3>1. CASE OfWhole(parts[which])
      BY <3>1, <2>4, KindIs DEF OfWhole, Drawn, MadeFrom
    <3>2. ~OfOwn(parts[which]) /\ ~OfBatch(parts[which])
      BY <2>4, <1>1 DEF OfOwn, OfBatch, Ask
    <3>3. CASE OfPage(parts[which])
      BY <3>3 DEF OfPage
    <3> QED BY <3>1, <3>2, <3>3, <1>2 DEF PartOk
  <2>6. PICK at : Drawn(parts[which], q, at)
    BY <2>5
  <2>7. q.how # "batch" /\ q.how # "pages"
    BY <1>1
  <2> HIDE DEF q
  <2>8. es \in May(q)
    BY DEF q
  <2> QED BY <2>6, <2>7, <2>8, SameAnswer
<1>4. CASE Scans = {} /\ OwnPages = {} /\ Together /\ WholeAsk.how # "image"
  <2>1. parts[i].from = WholeAsk
    BY <1>4, KindIs
  <2> QED BY <2>1, <1>1, <1>4
<1> QED BY <1>3, <1>4

\* The whole file read again for a row that is of all of it.
LEMMA WholeOwn ==
  ASSUME FileInv, NEW which \in DOMAIN parts, OfWhole(parts[which]), parts[which].page = 0, NEW es \in May(WholeAsk)
  PROVE  TakesOwn(which, WholeAsk, Nearest(es, parts[which].box))
<1>1. layout \in Layout /\ Together /\ Drawn(parts[which], WholeAsk, 0)
  BY DEF FileInv, OfWhole
<1>2. WholeAsk.how # "batch"
  BY <1>1, WholeIs
<1> QED BY <1>1, <1>2, SameAnswer DEF TakesOwn

\* The pages of a scan read again together: the receipt that has the row's page.
LEMMA MineOwn ==
  ASSUME FileInv, NEW which \in DOMAIN parts, OfWhole(parts[which]), NEW es \in May(WholeAsk), IsSplit(WholeAsk, es), WholeAsk.how = "pages",
         NEW k, k = CHOOSE j \in {j \in DOMAIN es : parts[which].page \in es[j].pages} :
                             \A l \in {l \in DOMAIN es : parts[which].page \in es[l].pages} : j <= l,
         {j \in DOMAIN es : parts[which].page \in es[j].pages} # {}
  PROVE  TakesOwn(which, WholeAsk, k)
<1> DEFINE d == parts[which]
           mine == {j \in DOMAIN es : d.page \in es[j].pages}
<1>1. HeardInv /\ layout \in Layout /\ Together /\ Drawn(d, WholeAsk, 0)
  BY DEF FileInv, OfWhole
<1>2. PICK h \in DOMAIN heard : heard[h].ask = WholeAsk /\ MadeFrom(d, WholeAsk, heard[h].list, 0)
  BY <1>1 DEF Drawn
<1>3. IsSeq(es) /\ (es = <<>> \/ es = heard[h].list)
  BY <1>1, <1>2, MayIs
<1>4. es = heard[h].list
  BY <1>3, EmptyIs
<1>5. mine \in SUBSET Nat /\ mine # {}
  BY <1>3, SomeIs
<1>6. k \in mine
  BY <1>5, LeastOfSome
<1>7. d.from = WholeAsk /\ d.nth \in DOMAIN es /\ d.page = FirstPage(es[d.nth])
  BY <1>2, <1>4 DEF MadeFrom
<1>8. d.nth \in mine
  BY <1>7, SplitApart
<1>9. k = d.nth
  <2>1. k # d.nth => es[k].pages \cap es[d.nth].pages = {}
    BY <1>6, <1>7, SplitApart
  <2> QED BY <2>1, <1>6, <1>8
<1>10. ASSUME NEW i \in DOMAIN parts \ {which} PROVE ~(parts[i].from = WholeAsk /\ parts[i].nth = k)
  <2>1. Apart2(d, parts[i])
    BY DEF FileInv, PartsInv
  <2> QED BY <2>1, <1>7, <1>9 DEF Apart2
<1>11. ASSUME Len(WholeAsk.pages) = 1 PROVE WholeAsk.pages = <<d.page>>
  <2> DEFINE n == Least(layout.pages, DrawnMax)
  <2>1. WholeAsk.pages = Upto(n) /\ n \in Nat
    BY <1>1, WholeIs, PagesIs, LeastIs
  <2>15. d.page \in 1 .. Len(WholeAsk.pages)
    BY <1>7, SplitApart
  <2>16. Len(Upto(n)) = n
    BY <2>1, UptoIs
  <2> HIDE DEF n
  <2>2. n = 1 /\ d.page \in 1 .. n
    BY <2>1, <2>15, <2>16, <1>11
  <2>3. Upto(1) = <<1>>
    BY DEF Upto
  <2>4. d.page = 1
    BY <2>2
  <2> QED BY <2>1, <2>2, <2>3, <2>4
<1> QED BY <1>10, <1>11 DEF TakesOwn

LEMMA AgainKeeps ==
  ASSUME FileInv, reading = "read", NEW which \in DOMAIN parts, NEW q, NEW k, NEW es \in May(q), Hears(q, es), TakesOwn(which, q, k), Adopts(which, q, k),
         UNCHANGED <<layout, reading, asks, parts, said>>
  PROVE  FileInv'
<1>1. layout \in Layout /\ HeardInv /\ AsksInv /\ PartsInv /\ AccountInv
  BY DEF FileInv
<1>2. HeardInv' /\ \A h \in DOMAIN heard : h \in DOMAIN heard' /\ heard'[h] = heard[h]
  BY <1>1, HeardKeeps
<1>3. Grew
  BY <1>2 DEF Grew
<1>4. /\ TextPages' = TextPages /\ Blanks' = Blanks /\ FilePages' = FilePages /\ SplittablePages' = SplittablePages
      /\ \A a : IsWhole(a)' = IsWhole(a) /\ IsOwn(a)' = IsOwn(a) /\ IsScan(a)' = IsScan(a)
  BY LayoutKeeps
<1>5. asks = <<>> /\ asks' = <<>> /\ DOMAIN asks' = {} /\ IsSeq(asks')
  BY <1>1, EmptyIs DEF AsksInv
<1>6. AsksInv'
  BY <1>5 DEF AsksInv
<1>7. PartsInv'
  <2>1. \A i \in DOMAIN parts' : PartOk(parts[i])'
    <3>1. \A i \in DOMAIN parts : \A d : d = parts[i] => PartOk(d)'
      BY <1>1, <1>3, PartKeeps DEF PartsInv
    <3> QED BY <3>1 DEF PartOk, OfWhole, OfOwn, OfPage, OfBatch, Drawn, MadeFrom
  <2>2. \A i, j \in DOMAIN parts' : i # j => Apart2(parts[i], parts[j])'
    BY <1>1 DEF PartsInv, Apart2
  <2>3. \A i \in DOMAIN parts' : ~Names(asks, parts[i].page)'
    BY <1>5 DEF Names
  <2>4. IsSeq(parts')
    BY <1>1 DEF PartsInv
  <2> QED BY <2>1, <2>2, <2>3, <2>4 DEF PartsInv
<1>8. AccountInv'
  <2>1. \A p : Accounted(p) => Accounted(p)'
    BY <1>4 DEF Accounted, Covered, Names
  <2> QED BY <2>1, <1>1, <1>4 DEF AccountInv
<1>9. RereadInv'
  <2>1. reread'.row = (IF k = 0 THEN 0 ELSE which) /\ reread'.from = q /\ reread'.nth = k
    BY DEF Adopts
  <2> SUFFICES ASSUME reread'.row # 0 PROVE reread'.row \in DOMAIN parts' /\ RereadIsOwn'
    BY DEF RereadInv
  <2>2. k # 0 /\ reread'.row = which
    BY <2>1
  <2> QED BY <2>1, <2>2 DEF RereadIsOwn, TakesOwn
<1> QED BY <1>1, <1>2, <1>6, <1>7, <1>8, <1>9 DEF FileInv

LEMMA ReadOneKeeps == ASSUME FileInv, ReadOneAgain PROVE FileInv'
<1>1. reading = "read" /\ layout \in Layout /\ UNCHANGED <<layout, reading, asks, parts, said>>
  BY DEF ReadOneAgain, FileInv
<1>2. PICK which \in DOMAIN parts : ReadOne(which)
  BY DEF ReadOneAgain
<1> DEFINE part == parts[which]
           n == Least(layout.pages, TogetherMax)
           whole == ScanAsks(n)[1]
           paged == Ask("image", <<part.page>>)
<1>3. /\ layout.pages \in Nat /\ TogetherMax \in Nat /\ 0 \notin Scans /\ 0 \notin OwnPages
      /\ OwnPages \cap Scans = {} /\ (SplittablePages => TextPages # {}) /\ (layout = Photo => TextPages = {})
  BY <1>1, PagesIs, WaysIs
<1>4. \/ OfWhole(part) /\ Together /\ (WholeAsk.how # "pages" => part.page = 0)
      \/ OfOwn(part) /\ part.page \in OwnPages
      \/ part.page \in Scans
  BY KindIs
<1>5. ASSUME NEW q, NEW box, AsksAgain(which, q, box), \A es \in May(q) : TakesOwn(which, q, Nearest(es, box)) PROVE FileInv'
  <2>1. PICK es \in May(q) : Hears(q, es) /\ Adopts(which, q, Nearest(es, box))
    BY <1>5 DEF AsksAgain
  <2>2. PICK k : k = Nearest(es, box)
    OBVIOUS
  <2>3. TakesOwn(which, q, k) /\ Adopts(which, q, k)
    BY <1>5, <2>1, <2>2
  <2> QED BY <1>1, <2>1, <2>3, AgainKeeps
<1>6. ASSUME ScannedPage(which), part.page \in Scans \/ (Scans = {} /\ OwnPages = {} /\ Together /\ WholeAsk.how # "image") PROVE FileInv'
  <2>1. AsksAgain(which, paged, part.box)
    BY <1>6 DEF ScannedPage
  <2>2. \A es \in May(paged) : TakesOwn(which, paged, Nearest(es, part.box))
    BY <1>6, ScannedPageOwn
  <2> HIDE DEF paged
  <2> QED BY <2>1, <2>2, <1>5
<1>7. ASSUME AsksAgain(which, WholeAsk, part.box), OfWhole(part), part.page = 0 PROVE FileInv'
  <2>1. \A es \in May(WholeAsk) : TakesOwn(which, WholeAsk, Nearest(es, part.box))
    BY <1>7, WholeOwn
  <2> QED BY <2>1, <1>7, <1>5
<1>8. CASE layout = Photo
  <2>1. WholeAsk = Ask("image", <<0>>) /\ WholeAsk.how = "image" /\ Together /\ TextPages = {}
    BY <1>3, <1>8, WaysIs, <1>1 DEF WholeAsk, Ask
  <2>2. OfWhole(part) /\ part.page = 0
    BY <1>1, <1>4, <2>1, WaysIs
  <2>3. AsksAgain(which, WholeAsk, part.box)
    BY <1>2, <1>8, <2>1 DEF ReadOne
  <2> QED BY <2>2, <2>3, <1>7
<1>9. CASE layout # Photo /\ TextPages # {} /\ part.page # 0 /\ part.page \notin TextPages
  <2>1. ScannedPage(which)
    BY <1>2, <1>9 DEF ReadOne
  <2>2. part.page \in Scans
    <3>1. part.page \notin OwnPages
      BY <1>9 DEF OwnPages
    <3>2. Together => WholeAsk.how = "text"
      BY <1>1, <1>9, WholeIs
    <3> QED BY <3>1, <3>2, <1>4, <1>9
  <2> QED BY <2>1, <2>2, <1>6
<1>10. CASE layout # Photo /\ TextPages # {} /\ (part.page = 0 \/ part.page \in TextPages)
  <2> DEFINE alone == part.page # 0 /\ SplittablePages
             q == Ask("text", IF alone THEN <<part.page>> ELSE Upto(Least(layout.pages, TextMax)))
  <2>1. AsksAgain(which, q, "none")
    BY <1>2, <1>10 DEF ReadOne
  <2>2. Scans \cap TextPages = {}
    BY <1>1, <1>10, PagesIs, WaysIs
  <2>3. CASE alone
    <3>1. OfOwn(part)
      <4>1. ~Together
        BY <1>10, <2>3 DEF Together
      <4> QED BY <4>1, <1>4, <1>10, <2>2, <2>3
    <3>2. q = Ask("text", <<part.page>>) /\ q.pages = <<part.page>>
      BY <2>3 DEF Ask
    <3>3. part.from = q /\ part.nth = 1 /\ q.how = "text"
      BY <3>1, <3>2 DEF OfOwn, Ask
    <3> HIDE DEF q
    <3>4. ASSUME NEW es \in May(q) PROVE TakesOwn(which, q, Nearest(es, "none"))
      <4> DEFINE none == "none"
      <4> HIDE DEF none
      <4>1. IsSeq(es)
        BY MayIs DEF FileInv
      <4>2. Nearest(es, none) # 0 => Nearest(es, none) = 1
        BY <4>1, NearestIs DEF none
      <4>3. ASSUME NEW i \in DOMAIN parts \ {which} PROVE ~(parts[i].from = q /\ parts[i].nth = 1)
        <5>1. Apart2(part, parts[i])
          BY DEF FileInv, PartsInv
        <5> QED BY <5>1, <3>3 DEF Apart2
      <4> QED BY <4>2, <4>3, <3>2 DEF TakesOwn, none
    <3>5. PICK box : box = "none"
      OBVIOUS
    <3> QED BY <2>1, <3>4, <3>5, <1>5
  <2>4. CASE ~alone
    <3>1. OfWhole(part) /\ Together /\ part.page = 0
      <4>1. Together => WholeAsk.how = "text"
        BY <1>1, <1>10, WholeIs
      <4>2. CASE part.page = 0
        BY <4>2, <1>3, <1>4
      <4>3. CASE part.page # 0 /\ ~SplittablePages
        BY <4>1, <4>3, <1>4, <1>10, <2>2 DEF OwnPages
      <4> QED BY <4>2, <4>3, <2>4
    <3>2. q = WholeAsk /\ WholeAsk.how = "text"
      BY <2>4, <3>1, <1>1, <1>10, WholeIs DEF WholeAsk
    <3>3. part.box = "none"
      <4>1. PICK h \in DOMAIN heard : MadeFrom(part, WholeAsk, heard[h].list, 0)
        BY <3>1 DEF OfWhole, Drawn
      <4>2. ~IsSplit(WholeAsk, heard[h].list)
        BY <3>2 DEF IsSplit
      <4> QED BY <4>1, <4>2 DEF MadeFrom
    <3>4. AsksAgain(which, WholeAsk, part.box)
      BY <2>1, <3>2, <3>3
    <3> QED BY <3>1, <3>4, <1>7
  <2> QED BY <2>3, <2>4
<1>11. CASE layout # Photo /\ TextPages = {}
  <2>1. Together => /\ whole = WholeAsk /\ Scans = {} /\ OwnPages = {} /\ WholeAsk.how \in {"image", "pages"}
                    /\ (WholeAsk.how = "pages" => layout.pages # 1)
    BY <1>1, <1>11, WholeIs, WaysIs
  <2>2. ~Together => part.page \in Scans
    BY <1>3, <1>4, <1>11 DEF OwnPages
  <2>3. ASSUME ScannedPage(which), part.page # 0 PROVE FileInv'
    <3>1. CASE Together
      <4>1. WholeAsk.how # "image"
        BY <2>1, <2>3, <3>1, <1>4
      <4> QED BY <4>1, <3>1, <2>1, <2>3, <1>6
    <3>2. CASE ~Together
      BY <3>2, <2>2, <2>3, <1>6
    <3> QED BY <3>1, <3>2
  <2>4. CASE part.page # 0 /\ (layout.pages = 1 \/ layout.pages > TogetherMax)
    BY <1>2, <1>11, <2>3, <2>4 DEF ReadOne
  <2>5. CASE part.page = 0
    <3>1. OfWhole(part) /\ Together
      BY <2>5, <1>3, <1>4
    <3>2. AsksAgain(which, WholeAsk, part.box)
      BY <1>2, <1>11, <2>1, <2>5, <3>1 DEF ReadOne
    <3> QED BY <2>5, <3>1, <3>2, <1>7
  <2>6. CASE part.page # 0 /\ ~(layout.pages = 1 \/ layout.pages > TogetherMax)
    <3> DEFINE mine(es) == {k \in DOMAIN es : part.page \in es[k].pages}
    <3>1. PICK es \in May(whole) :
            IF IsSplit(whole, es) /\ mine(es) # {}
            THEN Hears(whole, es) /\ Adopts(which, whole, CHOOSE k \in mine(es) : \A l \in mine(es) : k <= l)
            ELSE ScannedPage(which)
      BY <1>2, <1>11, <2>6 DEF ReadOne
    <3>2. CASE ~(IsSplit(whole, es) /\ mine(es) # {})
      BY <3>1, <3>2, <2>3, <2>6
    <3>3. CASE IsSplit(whole, es) /\ mine(es) # {}
      <4>1. PICK k : k = CHOOSE j \in mine(es) : \A l \in mine(es) : j <= l
        OBVIOUS
      <4>2. Hears(whole, es) /\ Adopts(which, whole, k)
        BY <3>1, <3>3, <4>1
      <4>3. Together
        <5>1. Least(layout.pages, DrawnMax) <= layout.pages
          BY <1>1, PagesIs, LeastIs
        <5>2. Least(layout.pages, DrawnMax) \in Nat
          BY <1>1, PagesIs, LeastIs
        <5> QED BY <5>1, <5>2, <1>3, <1>11, <2>6 DEF Together
      <4>4. whole = WholeAsk /\ OfWhole(part) /\ WholeAsk.how = "pages"
        BY <4>3, <2>1, <2>6, <1>4
      <4> HIDE DEF whole
      <4>5. TakesOwn(which, WholeAsk, k)
        BY <4>1, <4>4, <3>1, <3>3, MineOwn
      <4> QED BY <4>2, <4>4, <4>5, <3>1, <1>1, AgainKeeps
    <3> QED BY <3>2, <3>3
  <2> QED BY <2>4, <2>5, <2>6
<1> QED BY <1>8, <1>9, <1>10, <1>11

-----------------------------------------------------------------------------
LEMMA FileStarts == ASSUME FileInit PROVE FileInv
<1>1. /\ layout \in Layout /\ reading = "new" /\ asks = <<>> /\ parts = <<>> /\ heard = <<>> /\ reread.row = 0
      /\ IsSeq(<<>>) /\ DOMAIN <<>> = {}
  BY EmptyIs DEF FileInit
<1> QED BY <1>1 DEF FileInv, HeardInv, AsksInv, PartsInv, AccountInv, RereadInv

LEMMA FileKeeps == ASSUME FileInv, [FileNext]_fileVars PROVE FileInv'
<1>1. CASE UNCHANGED fileVars
  <2>1. UNCHANGED <<layout, reading, asks, parts, said, heard, reread>>
    BY <1>1 DEF fileVars
  <2>2. layout \in Layout /\ HeardInv /\ AsksInv /\ PartsInv /\ AccountInv /\ RereadInv
    BY DEF FileInv
  <2>3. Grew
    BY <2>1 DEF Grew
  <2>4. /\ TextPages' = TextPages /\ Blanks' = Blanks /\ FilePages' = FilePages /\ SplittablePages' = SplittablePages
        /\ \A a : IsWhole(a)' = IsWhole(a) /\ IsOwn(a)' = IsOwn(a) /\ IsScan(a)' = IsScan(a)
    BY <2>1, LayoutKeeps
  <2>5. HeardInv'
    BY <2>1, <2>2 DEF HeardInv
  <2>6. AsksInv'
    <3>1. \A i \in DOMAIN asks : \A a : a = asks[i] => /\ IsWhole(a)' \/ IsOwn(a)' \/ IsScan(a)'
                                                       /\ IsWhole(a)' => Len(asks) = 1 /\ parts = <<>> /\ reading = "asking"
                                                       /\ IsScan(a)' /\ TextPages # {} => reading = "blanks"
      BY <2>2, <2>4 DEF AsksInv
    <3>2. \A i \in DOMAIN asks' : /\ IsWhole(asks[i])' \/ IsOwn(asks[i])' \/ IsScan(asks[i])'
                                  /\ IsWhole(asks[i])' => Len(asks) = 1 /\ parts = <<>> /\ reading = "asking"
                                  /\ IsScan(asks[i])' /\ TextPages # {} => reading = "blanks"
      BY <3>1, <2>1 DEF IsOwn, IsScan, IsWhole, IsAlone, IsBatch, Places, IsSeq
    <3> QED BY <3>2, <2>1, <2>2, <2>4 DEF AsksInv
  <2>7. PartsInv'
    <3>1. \A i \in DOMAIN parts : \A d : d = parts[i] => PartOk(d)'
      BY <2>2, <2>3, PartKeeps DEF PartsInv
    <3>2. \A i \in DOMAIN parts' : PartOk(parts[i])'
      BY <3>1, <2>1 DEF PartOk, OfWhole, OfOwn, OfPage, OfBatch, Drawn, MadeFrom
    <3>3. \A i, j \in DOMAIN parts' : i # j => Apart2(parts[i], parts[j])'
      BY <2>1, <2>2 DEF PartsInv, Apart2
    <3>4. \A i \in DOMAIN parts' : ~Names(asks, parts[i].page)'
      BY <2>1, <2>2 DEF PartsInv, Names
    <3> QED BY <3>2, <3>3, <3>4, <2>1, <2>2, <2>4 DEF PartsInv
  <2>8. AccountInv'
    <3>1. \A p : Accounted(p) => Accounted(p)'
      BY <2>1, <2>4 DEF Accounted, Covered, Names
    <3> QED BY <3>1, <2>1, <2>2, <2>4 DEF AccountInv
  <2>9. RereadInv'
    BY <2>1, <2>2 DEF RereadInv, RereadIsOwn
  <2>10. reading' \in {"new", "asking", "blanks", "read"} /\ layout' \in Layout
    BY <2>1 DEF FileInv
  <2> QED BY <2>5, <2>6, <2>7, <2>8, <2>9, <2>10 DEF FileInv
<1>2. CASE FileNext
  BY <1>2, ReadPartsKeeps, UnreadableKeeps, ReadOutKeeps, LookedKeeps, TypedKeeps, ScannedKeeps, OutOfReachKeeps, BatchKeeps,
     ReadOneKeeps DEF FileNext
<1> QED BY <1>1, <1>2

LEMMA FileInvHolds == ASSUME FileInv PROVE FilesHold
<1>1. layout \in Layout /\ HeardInv /\ PartsInv /\ AccountInv /\ AsksInv /\ RereadInv
  BY DEF FileInv
<1>2. PagesAccounted
  <2> SUFFICES ASSUME reading = "read", NEW p \in FilePages
               PROVE  \/ p \in said \/ parts = <<>>
                      \/ \E i \in DOMAIN parts : p \in Range(parts[i].from.pages)
                      \/ p \in TextPages /\ ~SplittablePages
    BY DEF PagesAccounted, FilePages
  <2>1. Accounted(p) /\ ~Names(asks, p)
    BY <1>1, EmptyIs DEF AccountInv, AsksInv, Names
  <2> QED BY <2>1 DEF Accounted, Covered
<1>3. RereadIsOwn
  BY <1>1 DEF RereadInv, RereadIsOwn
<1> QED BY <1>1, <1>2, <1>3, RowsStandApart DEF FilesHold

\* Nothing in a file is dropped silently, its rows stand apart, and a row read again takes no other's
\* receipt: FilesHold, in any run of readParts and readOne.
THEOREM FilesStayHeld == FileSpec => []FilesHold
<1>1. FileInit => FileInv
  BY FileStarts
<1>2. FileInv /\ [FileNext]_fileVars => FileInv'
  BY FileKeeps
<1>3. FileInv => FilesHold
  BY FileInvHolds
<1> QED BY <1>1, <1>2, <1>3, PTL DEF FileSpec

-----------------------------------------------------------------------------
(* A receipt on the pages it is checked on.                                  *)

Sheet == [status : Standing, details : Value, lines : Value]
Snap == [Receipt -> Sheet]
Asked == [by : {"poll", "own"}, on : Receipt, stale : BOOLEAN, says : Snap \cup {<<>>}]

\* What was seen once is not undone.
Behind(old, new) ==
  /\ old.status = "gone" => new.status = "gone"
  /\ \A p \in Part : old[p] # "first" => new[p] # "first"
Reviewed(v, r) == v[r].status = "reviewed"

LEMMA SheetIs ==
  ASSUME NEW e \in Sheet, NEW p \in Part
  PROVE  e[p] \in Value /\ e.status \in Standing /\ Boxes(e) \in [Part -> Value] /\ Boxes(e)[p] = e[p]
BY DEF Sheet, Part, Boxes

LEMMA SheetPut ==
  ASSUME NEW e \in Sheet, NEW p \in Part, NEW x \in Value
  PROVE  /\ [e EXCEPT ![p] = x] \in Sheet /\ [e EXCEPT ![p] = x].status = e.status
         /\ \A q \in Part : [e EXCEPT ![p] = x][q] = IF q = p THEN x ELSE e[q]
BY DEF Sheet, Part

LEMMA SheetTold ==
  ASSUME NEW e \in Sheet, NEW s \in Standing
  PROVE  /\ [e EXCEPT !.status = s] \in Sheet /\ [e EXCEPT !.status = s].status = s
         /\ \A q \in Part : [e EXCEPT !.status = s][q] = e[q]
BY DEF Sheet, Part

LEMMA BehindItself == \A e : Behind(e, e)
BY DEF Behind
LEMMA BehindOn == \A d, e, f : Behind(d, e) /\ Behind(e, f) => Behind(d, f)
BY DEF Behind

\* What is left of a list without one of its entries.
LEMMA RemovedAt ==
  ASSUME NEW T, NEW s \in Seq(T), NEW i \in DOMAIN s
  PROVE  /\ ListOps!RemoveAt(s, i) \in Seq(T) /\ DOMAIN ListOps!RemoveAt(s, i) = 1..Len(s) - 1
         /\ \A k \in 1..Len(s) - 1 : ListOps!RemoveAt(s, i)[k] = s[IF k < i THEN k ELSE k + 1]
<1>1. Len(s) \in Nat /\ DOMAIN s = 1..Len(s) /\ i \in 1..Len(s)
  OBVIOUS
<1>2. PICK a, b : a = SubSeq(s, 1, i - 1) /\ b = SubSeq(s, i + 1, Len(s))
  OBVIOUS
<1>3. a \in Seq(T) /\ Len(a) = i - 1 /\ \A k \in 1..i - 1 : a[k] = s[k]
  BY <1>1, <1>2
<1>4. b \in Seq(T) /\ Len(b) = Len(s) - i /\ \A k \in 1..Len(s) - i : b[k] = s[k + i]
  BY <1>1, <1>2
<1>5. ListOps!RemoveAt(s, i) = a \o b
  BY <1>2 DEF ListOps!RemoveAt
<1>6. a \o b \in Seq(T) /\ Len(a \o b) = Len(s) - 1
  <2>1. a \in Seq(T) /\ b \in Seq(T)
    BY <1>3, <1>4
  <2>2. a \o b \in Seq(T) /\ Len(a \o b) = Len(a) + Len(b)
    BY <2>1
  <2>3. Len(a) = i - 1 /\ Len(b) = Len(s) - i /\ Len(s) \in Int /\ i \in Int
    BY <1>1, <1>3, <1>4
  <2>4. Len(a) + Len(b) = Len(s) - 1
    BY <2>3
  <2> QED BY <2>2, <2>4
<1>7. ASSUME NEW k \in 1..Len(s) - 1 PROVE (a \o b)[k] = s[IF k < i THEN k ELSE k + 1]
  <2>1. CASE k < i
    BY <1>1, <1>3, <1>4, <2>1
  <2>2. CASE ~(k < i)
    <3>1. (a \o b)[k] = b[k - (i - 1)] /\ k - (i - 1) \in 1..Len(s) - i
      BY <1>1, <1>3, <1>4, <2>2
    <3>2. k - (i - 1) + i = k + 1
      BY <1>1
    <3> QED BY <1>4, <2>2, <3>1, <3>2
  <2> QED BY <2>1, <2>2
<1> QED BY <1>5, <1>6, <1>7

-----------------------------------------------------------------------------
(* What was asked and is not in yet.                                         *)

Snapped(f) == \A i \in DOMAIN f : ~f[i].stale => f[i].says \in Snap
Older(f, srv) == \A i \in DOMAIN f : ~f[i].stale => \A r \in Receipt : Behind(f[i].says[r], srv[r])
Single(f) == \A i, j \in DOMAIN f : i # j => f[i].by # f[j].by
StaleFirst(f) == \A i, j \in DOMAIN f : i < j /\ f[j].stale => f[i].stale
\* Nothing is checked while the page waits for its own GET.
OwnCovers(f, srv) ==
  \A i, j \in DOMAIN f : f[i].by = "own" /\ i <= j /\ ~f[j].stale =>
    \A r \in Receipt : Reviewed(srv, r) => Reviewed(f[j].says, r)
SeenIn(f, sn) == \A i \in DOMAIN f : ~f[i].stale => \A r \in sn : Reviewed(f[i].says, r)
NoOwn(f) == \A i \in DOMAIN f : f[i].by # "own"

Fits(f, srv) == f \in Seq(Asked) /\ Snapped(f) /\ Single(f) /\ StaleFirst(f) /\ OwnCovers(f, srv)

\* g is f without its i-th, and with those before it out of date if c.
At(i, k) == IF k < i THEN k ELSE k + 1
Lands(f, g, i, c) ==
  /\ g \in Seq(Asked) /\ DOMAIN g \in SUBSET Nat
  /\ \A k \in DOMAIN g : /\ At(i, k) \in DOMAIN f /\ At(i, k) # i
                         /\ IF c /\ At(i, k) < i THEN g[k].stale /\ g[k].by = f[At(i, k)].by ELSE g[k] = f[At(i, k)]

LEMMA AtIs == ASSUME NEW i \in Nat, NEW k \in Nat, NEW l \in Nat, k < l PROVE At(i, k) < At(i, l) /\ At(i, k) \in Nat /\ At(i, l) \in Nat
BY DEF At

LEMMA LandsFits ==
  ASSUME NEW f, NEW srv, Fits(f, srv), NEW g, NEW i \in DOMAIN f, NEW c \in BOOLEAN, Lands(f, g, i, c)
  PROVE  Fits(g, srv) /\ (Older(f, srv) => Older(g, srv))
<1>0. i \in Nat /\ \A k, l \in DOMAIN g : k \in Nat /\ l \in Nat /\ At(i, k) \in Nat /\ (k < l => At(i, k) < At(i, l))
  <2>1. DOMAIN f = 1..Len(f) /\ Len(f) \in Nat
    BY DEF Fits
  <2>2. i \in Nat /\ \A k \in DOMAIN g : k \in Nat
    BY <2>1 DEF Lands
  <2>3. \A k \in Nat : At(i, k) \in Nat
    BY <2>2 DEF At
  <2> QED BY <2>2, <2>3, AtIs
<1>1. ASSUME NEW k \in DOMAIN g, ~g[k].stale PROVE g[k] = f[At(i, k)] /\ At(i, k) \in DOMAIN f
  BY <1>1 DEF Lands
<1>2. \A k \in DOMAIN g : g[k].by = f[At(i, k)].by /\ At(i, k) \in DOMAIN f
  BY DEF Lands
<1>3. Snapped(g) /\ (Older(f, srv) => Older(g, srv))
  BY <1>1 DEF Snapped, Older, Fits
<1>4. Single(g)
  <2>1. ASSUME NEW k \in DOMAIN g, NEW l \in DOMAIN g, k # l PROVE g[k].by # g[l].by
    <3>1. k < l \/ l < k
      BY <1>0, <2>1
    <3>2. At(i, k) # At(i, l)
      BY <1>0, <3>1
    <3> QED BY <1>2, <3>2 DEF Single, Fits
  <2> QED BY <2>1 DEF Single
<1>5. StaleFirst(g)
  <2>1. ASSUME NEW k \in DOMAIN g, NEW l \in DOMAIN g, k < l, g[l].stale PROVE g[k].stale
    <3>1. At(i, k) < At(i, l) /\ At(i, k) \in DOMAIN f /\ At(i, l) \in DOMAIN f
      BY <1>0, <1>2, <2>1
    <3>2. CASE c /\ At(i, k) < i
      BY <3>2 DEF Lands
    <3>3. CASE ~(c /\ At(i, k) < i)
      <4>1. ~(c /\ At(i, l) < i)
        BY <1>0, <3>1, <3>3
      <4>2. g[k] = f[At(i, k)] /\ g[l] = f[At(i, l)]
        BY <3>3, <4>1 DEF Lands
      <4> QED BY <2>1, <3>1, <4>2 DEF StaleFirst, Fits
    <3> QED BY <3>2, <3>3
  <2> QED BY <2>1 DEF StaleFirst
<1>6. OwnCovers(g, srv)
  <2>1. ASSUME NEW k \in DOMAIN g, NEW l \in DOMAIN g, g[k].by = "own", k <= l, ~g[l].stale, NEW r \in Receipt, Reviewed(srv, r)
        PROVE  Reviewed(g[l].says, r)
    <3>1. At(i, k) <= At(i, l)
      BY <1>0, <2>1
    <3>2. f[At(i, k)].by = "own" /\ g[l] = f[At(i, l)] /\ At(i, k) \in DOMAIN f /\ At(i, l) \in DOMAIN f
      BY <1>1, <1>2, <2>1
    <3> QED BY <2>1, <3>1, <3>2 DEF OwnCovers, Fits
  <2> QED BY <2>1 DEF OwnCovers
<1>7. g \in Seq(Asked)
  BY DEF Lands
<1> QED BY <1>3, <1>4, <1>5, <1>6, <1>7 DEF Fits

LEMMA LandsSeen ==
  ASSUME NEW f, NEW srv, Fits(f, srv), NEW g, NEW i \in DOMAIN f, Lands(f, g, i, ~f[i].stale),
         NEW sn \in SUBSET Receipt, SeenIn(f, sn), NEW now \in SUBSET Receipt, \A r \in now : r \in sn \/ Reviewed(srv, r)
  PROVE  SeenIn(g, now)
<1>1. SUFFICES ASSUME NEW k \in DOMAIN g, ~g[k].stale, NEW r \in now PROVE Reviewed(g[k].says, r)
  BY DEF SeenIn
<1>2. PICK m \in DOMAIN f : m = At(i, k) /\ m # i
  BY DEF Lands
<1>3. ~(~f[i].stale /\ m < i) /\ g[k] = f[m]
  BY <1>1, <1>2 DEF Lands
<1>4. i \in Nat /\ m \in Nat
  <2>1. DOMAIN f = 1..Len(f) /\ Len(f) \in Nat
    BY DEF Fits
  <2> QED BY <2>1
<1>5. i < m
  <2>1. CASE f[i].stale
    <3>1. ~f[m].stale
      BY <1>1, <1>3
    <3>2. ~(m < i)
      BY <2>1, <3>1 DEF Fits, StaleFirst
    <3> QED BY <1>2, <1>4, <3>2
  <2>2. CASE ~f[i].stale
    BY <1>2, <1>3, <1>4, <2>2
  <2> QED BY <2>1, <2>2
<1>6. f[i].by = "own" \/ f[m].by = "own"
  <2>1. f[i].by # f[m].by /\ f[i] \in Asked /\ f[m] \in Asked
    BY <1>2 DEF Fits, Single
  <2> QED BY <2>1 DEF Asked
<1>7. Reviewed(srv, r) => Reviewed(f[m].says, r)
  <2>1. i <= m /\ m <= m /\ ~f[m].stale
    BY <1>1, <1>3, <1>4, <1>5
  <2> QED BY <1>6, <2>1 DEF Fits, OwnCovers
<1> QED BY <1>1, <1>3, <1>7 DEF SeenIn

LEMMA AskedFits ==
  ASSUME NEW f, NEW srv \in Snap, Fits(f, srv), NEW e \in Asked, ~e.stale, e.says = srv, \A i \in DOMAIN f : f[i].by # e.by,
         NEW g, g = Append(f, e),
         NEW sn \in SUBSET Receipt, SeenIn(f, sn), \A r \in sn : Reviewed(srv, r)
  PROVE  Fits(g, srv) /\ (Older(f, srv) => Older(g, srv)) /\ SeenIn(g, sn) /\ (e.by # "own" /\ NoOwn(f) => NoOwn(g))
<1>1. PICK n : n = Len(f) + 1
  OBVIOUS
<1>2. e \in Asked /\ e.stale = FALSE /\ e.says = srv
  BY DEF Asked
<1>3. f \in Seq(Asked) /\ Len(f) \in Nat /\ DOMAIN f = 1..Len(f)
  BY DEF Fits
<1>4. g \in Seq(Asked) /\ DOMAIN g = 1..n /\ g[n] = e /\ \A k \in 1..Len(f) : g[k] = f[k]
  BY <1>1, <1>2, <1>3
<1>5. ASSUME NEW k \in DOMAIN g PROVE (k = n /\ g[k] = e) \/ (k < n /\ k \in DOMAIN f /\ g[k] = f[k])
  BY <1>1, <1>3, <1>4
<1>6. Snapped(g) /\ (Older(f, srv) => Older(g, srv))
  BY <1>2, <1>5, BehindItself DEF Snapped, Older, Fits
<1>7. Single(g)
  BY <1>2, <1>5 DEF Single, Fits
<1>8. StaleFirst(g)
  <2>1. ASSUME NEW k \in DOMAIN g, NEW l \in DOMAIN g, k < l, g[l].stale PROVE g[k].stale
    <3>1. l < n /\ l \in DOMAIN f /\ g[l] = f[l]
      BY <1>2, <1>5, <2>1
    <3>2. k \in DOMAIN f /\ g[k] = f[k]
      BY <1>1, <1>3, <1>4, <2>1, <3>1
    <3> QED BY <2>1, <3>1, <3>2 DEF StaleFirst, Fits
  <2> QED BY <2>1 DEF StaleFirst
<1>9. OwnCovers(g, srv)
  <2>1. ASSUME NEW k \in DOMAIN g, NEW l \in DOMAIN g, g[k].by = "own", k <= l, ~g[l].stale, NEW r \in Receipt, Reviewed(srv, r)
        PROVE  Reviewed(g[l].says, r)
    <3>1. CASE g[l] = e
      BY <1>2, <2>1, <3>1
    <3>2. CASE l < n /\ l \in DOMAIN f /\ g[l] = f[l]
      <4>1. k \in DOMAIN f /\ g[k] = f[k]
        BY <1>1, <1>3, <1>4, <2>1, <3>2
      <4> QED BY <2>1, <3>2, <4>1 DEF OwnCovers, Fits
    <3> QED BY <1>5, <3>1, <3>2
  <2> QED BY <2>1 DEF OwnCovers
<1>10. SeenIn(g, sn)
  BY <1>2, <1>5 DEF SeenIn
<1>11. e.by # "own" /\ NoOwn(f) => NoOwn(g)
  BY <1>2, <1>5 DEF NoOwn
<1> QED BY <1>4, <1>6, <1>7, <1>8, <1>9, <1>10, <1>11 DEF Fits

\* What the server goes on to hold.
Forward(srv, now) == now \in Snap /\ \A r \in Receipt : Behind(srv[r], now[r])
NoneChecked(srv, now) == \A r \in Receipt : Reviewed(now, r) => Reviewed(srv, r)

LEMMA ForwardFits ==
  ASSUME NEW f, NEW srv, Fits(f, srv), NEW now, NoOwn(f) \/ NoneChecked(srv, now)
  PROVE  Fits(f, now)
<1>1. OwnCovers(f, now)
  BY DEF OwnCovers, Fits, NoOwn, NoneChecked
<1> QED BY <1>1 DEF Fits

LEMMA ForwardOlder == ASSUME NEW f, NEW srv, NEW now, Older(f, srv), Forward(srv, now) PROVE Older(f, now)
BY BehindOn DEF Older, Forward

LEMMA LandedLands ==
  ASSUME flight \in Seq(Asked), NEW i \in DOMAIN flight
  PROVE  /\ Lands(flight, Landed(i), i, page = "case" /\ ~flight[i].stale)
         /\ Lands(flight, ListOps!RemoveAt(flight, i), i, FALSE)
<1>1. Len(flight) \in Nat /\ DOMAIN flight = 1..Len(flight) /\ i \in Nat
  OBVIOUS
<1>2. PICK c \in BOOLEAN : c = (page = "case" /\ ~flight[i].stale)
  <2>1. flight[i] \in Asked
    BY <1>1
  <2> QED BY <2>1 DEF Asked
<1>3. PICK f : f = [j \in DOMAIN flight |-> IF page = "case" /\ j < i /\ ~flight[i].stale THEN [flight[j] EXCEPT !.stale = TRUE, !.says = <<>>] ELSE flight[j]]
  OBVIOUS
<1>4. ASSUME NEW j \in DOMAIN flight
      PROVE  f[j] \in Asked /\ IF c /\ j < i THEN f[j].stale /\ f[j].by = flight[j].by ELSE f[j] = flight[j]
  <2>1. flight[j] \in Asked
    BY <1>1
  <2>2. CASE c /\ j < i
    <3>1. f[j] = [flight[j] EXCEPT !.stale = TRUE, !.says = <<>>]
      BY <1>2, <1>3, <2>2
    <3> QED BY <2>1, <2>2, <3>1 DEF Asked
  <2>3. CASE ~(c /\ j < i)
    BY <1>2, <1>3, <2>1, <2>3
  <2> QED BY <2>2, <2>3
<1>5. f \in Seq(Asked) /\ Len(f) = Len(flight) /\ DOMAIN f = DOMAIN flight
  <2>1. f \in [1..Len(flight) -> Asked]
    BY <1>1, <1>3, <1>4
  <2> QED BY <1>1, <2>1
<1>6. \A k \in 1..Len(flight) - 1 : At(i, k) \in DOMAIN flight /\ At(i, k) # i
  BY <1>1 DEF At
<1>7. PICK g : g = Landed(i)
  OBVIOUS
<1>8. g = ListOps!RemoveAt(f, i)
  BY <1>3, <1>7 DEF Landed
<1>9. g \in Seq(Asked) /\ DOMAIN g = 1..Len(flight) - 1 /\ \A k \in 1..Len(flight) - 1 : g[k] = f[At(i, k)]
  BY <1>5, <1>8, RemovedAt DEF At
<1>10. Lands(flight, g, i, c)
  <2>1. DOMAIN g \in SUBSET Nat
    BY <1>1, <1>9
  <2>2. ASSUME NEW k \in DOMAIN g
        PROVE  /\ At(i, k) \in DOMAIN flight /\ At(i, k) # i
               /\ IF c /\ At(i, k) < i THEN g[k].stale /\ g[k].by = flight[At(i, k)].by ELSE g[k] = flight[At(i, k)]
    <3>1. At(i, k) \in DOMAIN flight /\ At(i, k) # i /\ g[k] = f[At(i, k)]
      BY <1>6, <1>9
    <3>2. IF c /\ At(i, k) < i THEN f[At(i, k)].stale /\ f[At(i, k)].by = flight[At(i, k)].by ELSE f[At(i, k)] = flight[At(i, k)]
      BY <1>4, <3>1
    <3> QED BY ONLY <3>1, <3>2
  <2> QED BY ONLY <1>9, <2>1, <2>2 DEF Lands
<1>11. PICK h : h = ListOps!RemoveAt(flight, i)
  OBVIOUS
<1>12. h \in Seq(Asked) /\ DOMAIN h = 1..Len(flight) - 1 /\ \A k \in 1..Len(flight) - 1 : h[k] = flight[At(i, k)]
  BY <1>11, RemovedAt DEF At
<1>13. Lands(flight, h, i, FALSE)
  BY <1>1, <1>6, <1>12 DEF Lands
<1> QED BY <1>2, <1>7, <1>10, <1>11, <1>13

-----------------------------------------------------------------------------
(* What holds of the page.                                                   *)

Steps == {"details", "lines", "act", "ask", "shown", "list", "each"}
Jobs == [kind : AnyKind, on : Receipt, boxes : [Part -> Value], owed : [Part -> Value \cup {"nothing"}],
         loose : BOOLEAN, saving : BOOLEAN, todo : SUBSET Receipt, step : Steps]
Saves == doing.kind # "none" /\ doing.step \in {"details", "lines"}
\* What was typed is saved or given up.
SaveOver == doing.kind # "none" /\ ~Saves /\ (doing.saving \/ (page = "case" /\ (doing.step = "act" => ~GivesUp(doing.kind))))

Typings == ReviewTypeOk /\ dirty \in BOOLEAN /\ view \in Snap /\ (doing = NotDoing \/ doing \in Jobs)

Awaited(f, j) == NoOwn(f) \/ (j.kind # "none" /\ j.step \in {"shown", "list"})
FlightOk ==
  /\ Fits(flight, server) /\ Awaited(flight, doing)
  /\ page = "case" => SeenIn(flight, seen)
  /\ page = "receipt" => \A i \in DOMAIN flight : ~flight[i].stale
FlightInv == FlightOk /\ Older(flight, server)

ShownOk == (\A r \in seen : Reviewed(server, r)) /\ CheckedStaysShown
ShownInv == ShownOk /\ \A r \in Receipt : Behind(view[r], server[r])

LEMMA OkToo == (FlightInv => FlightOk) /\ (ShownInv => ShownOk)
BY DEF FlightInv, ShownInv

BoxInv ==
  /\ TypedKept
  /\ \A p \in Part : form[p] \in {"typed", base[p]}
  /\ sel # NoReceipt => \A p \in Part : base[p] # "first" => server[sel][p] # "first"
  /\ sel = NoReceipt => owed = Untyped /\ base = Blank

Typist(on, boxes) == server[on].status = "gone" \/ (sel = on /\ dirty /\ \A p \in Part : boxes[p] \in {"typed", base[p]})
JobInv ==
  /\ Saves => doing.saving
  /\ page = "left" => doing.kind = "none"
  /\ SaveOver => owed = Untyped
  /\ Saves /\ ~doing.loose =>
       /\ doing.boxes[doing.step] = "typed"
       /\ Typist(doing.on, doing.boxes)
       /\ doing.step = "lines" /\ doing.boxes["details"] = "typed" => server[doing.on]["details"] # "first"

ReviewInv == Typings /\ FlightInv /\ ShownInv /\ BoxInv /\ JobInv /\ OnlyTyped /\ SavedIsTyped

LEMMA FlightKeptOk ==
  ASSUME FlightOk, UNCHANGED flight, NoOwn(flight) \/ NoneChecked(server, server'),
         page' \in {page, "left"}, seen' \subseteq seen, NoOwn(flight) \/ (doing'.kind = doing.kind /\ doing'.step = doing.step)
  PROVE  FlightOk'
<1>1. Fits(flight, server')
  <2>1. Fits(flight, server)
    BY DEF FlightOk
  <2> QED BY <2>1, ForwardFits
<1>2. Awaited(flight, doing')
  BY DEF FlightOk, Awaited
<1>3. page' = "case" => SeenIn(flight, seen')
  BY DEF FlightOk, SeenIn
<1>4. page' = "receipt" => \A i \in DOMAIN flight : ~flight[i].stale
  BY DEF FlightOk
<1> QED BY <1>1, <1>2, <1>3, <1>4 DEF FlightOk

LEMMA FlightKept ==
  ASSUME FlightInv, UNCHANGED flight, Forward(server, server'), NoOwn(flight) \/ NoneChecked(server, server'),
         page' \in {page, "left"}, seen' \subseteq seen, NoOwn(flight) \/ (doing'.kind = doing.kind /\ doing'.step = doing.step)
  PROVE  FlightInv'
BY FlightKeptOk, ForwardOlder DEF FlightInv

\* One GET is in, or lost.
LEMMA FlightGone ==
  ASSUME Typings, FlightOk, NEW i \in DOMAIN flight, flight' = Landed(i),
         UNCHANGED <<server, page>>, seen' \subseteq Receipt, \A r \in seen' : r \in seen \/ Reviewed(server, r),
         NoOwn(flight') \/ doing' = doing
  PROVE  FlightOk' /\ (FlightInv => FlightInv')
<1>1. Fits(flight, server) /\ flight \in Seq(Asked) /\ seen \in SUBSET Receipt
  BY DEF FlightOk, Fits, Typings, ReviewTypeOk
<1>2. PICK c \in BOOLEAN : c = (page = "case" /\ ~flight[i].stale)
  <2>1. flight[i] \in Asked
    BY <1>1
  <2> QED BY <2>1 DEF Asked
<1>3. Lands(flight, flight', i, c)
  BY <1>1, <1>2, LandedLands
<1>4. Fits(flight', server) /\ (Older(flight, server) => Older(flight', server))
  BY <1>1, <1>3, LandsFits
<1>5. page = "case" => SeenIn(flight', seen')
  <2> SUFFICES ASSUME page = "case" PROVE SeenIn(flight', seen')
    OBVIOUS
  <2>1. SeenIn(flight, seen) /\ Lands(flight, flight', i, ~flight[i].stale)
    BY <1>2, <1>3 DEF FlightOk
  <2> QED BY <1>1, <2>1, LandsSeen
<1>6. page = "receipt" => \A k \in DOMAIN flight' : ~flight'[k].stale
  <2>1. page = "receipt" => c = FALSE
    BY <1>2
  <2> QED BY <1>3, <2>1 DEF Lands, FlightOk
<1>7. Awaited(flight', doing')
  <2>1. NoOwn(flight) => NoOwn(flight')
    BY <1>3 DEF Lands, NoOwn
  <2> QED BY <2>1 DEF Awaited, FlightOk
<1> QED BY <1>4, <1>5, <1>6, <1>7 DEF FlightInv, FlightOk

\* The page's own GET was the only one of its own.
LEMMA OwnIsOne ==
  ASSUME FlightOk, NEW i \in DOMAIN flight, flight[i].by = "own", NEW g, NEW c, Lands(flight, g, i, c) PROVE NoOwn(g)
<1>1. \A j \in DOMAIN flight : j # i => flight[j].by # "own"
  BY DEF FlightOk, Fits, Single
<1>2. \A k \in DOMAIN g : At(i, k) \in DOMAIN flight /\ At(i, k) # i /\ g[k].by = flight[At(i, k)].by
  BY DEF Lands
<1> QED BY ONLY <1>1, <1>2 DEF NoOwn

LEMMA FlightLost ==
  ASSUME FlightOk, NEW i \in DOMAIN flight, flight[i].by = "own", flight' = ListOps!RemoveAt(flight, i),
         UNCHANGED <<server, page, seen>>
  PROVE  FlightOk' /\ (FlightInv => FlightInv')
<1>1. Fits(flight, server) /\ flight \in Seq(Asked)
  BY DEF FlightOk, Fits
<1>2. Lands(flight, flight', i, FALSE)
  BY <1>1, LandedLands
<1>3. Fits(flight', server) /\ (Older(flight, server) => Older(flight', server))
  BY <1>1, <1>2, LandsFits
<1>4. NoOwn(flight')
  BY <1>2, OwnIsOne
<1>5. \A k \in DOMAIN flight' : flight'[k] = flight[At(i, k)] /\ At(i, k) \in DOMAIN flight
  BY <1>2 DEF Lands
<1> QED BY <1>3, <1>4, <1>5 DEF FlightInv, FlightOk, Awaited, SeenIn

LEMMA FlightMore ==
  ASSUME Typings, FlightOk, ShownOk, NEW who \in {"poll", "own"}, NEW on \in Receipt, \A i \in DOMAIN flight : flight[i].by # who,
         AskFor(who, on), UNCHANGED <<server, page, seen>>,
         IF who = "own" THEN doing'.kind # "none" /\ doing'.step \in {"shown", "list"} ELSE doing' = doing
  PROVE  FlightOk' /\ (FlightInv => FlightInv')
<1>1. PICK sn \in SUBSET Receipt : sn = IF page = "case" THEN seen ELSE {}
  BY DEF Typings, ReviewTypeOk
<1>2. SeenIn(flight, sn) /\ \A r \in sn : Reviewed(server, r)
  BY <1>1 DEF FlightOk, ShownOk, SeenIn
<1>3. server \in Snap /\ Fits(flight, server)
  BY DEF Typings, ReviewTypeOk, Snap, Sheet, FlightOk
<1>4. flight' = Append(flight, [by |-> who, on |-> on, stale |-> FALSE, says |-> server])
  BY DEF AskFor
<1>5. /\ Fits(flight', server) /\ SeenIn(flight', sn) /\ (who # "own" /\ NoOwn(flight) => NoOwn(flight'))
      /\ Older(flight, server) => Older(flight', server)
  <2>1. PICK f, g, srv, e : f = flight /\ g = flight' /\ srv = server /\ e = [by |-> who, on |-> on, stale |-> FALSE, says |-> server]
    OBVIOUS
  <2>2. srv \in Snap
    BY <1>3, <2>1
  <2>3. e \in Asked /\ e.stale = FALSE /\ e.says = srv /\ e.by = who
    BY <2>1, <2>2 DEF Asked
  <2>4. \A i \in DOMAIN f : f[i].by # e.by
    BY <2>1, <2>3
  <2>5. g = Append(f, e)
    BY <1>4, <2>1
  <2>6. Fits(f, srv) /\ SeenIn(f, sn)
    BY <1>2, <1>3, <2>1
  <2>7. \A r \in sn : Reviewed(srv, r)
    BY <1>2, <2>1
  <2>8. Fits(g, srv) /\ SeenIn(g, sn) /\ (who # "own" /\ NoOwn(f) => NoOwn(g)) /\ (Older(f, srv) => Older(g, srv))
    <3>1. e \in Asked /\ ~e.stale /\ e.says = srv /\ Fits(f, srv) /\ SeenIn(f, sn)
      BY ONLY <2>3, <2>6
    <3>2. Fits(g, srv) /\ (Older(f, srv) => Older(g, srv)) /\ SeenIn(g, sn) /\ (e.by # "own" /\ NoOwn(f) => NoOwn(g))
      BY ONLY <2>2, <2>4, <2>5, <2>7, <3>1, AskedFits, sn \in SUBSET Receipt
    <3> QED BY ONLY <2>3, <3>2
  <2> QED BY <2>1, <2>8
<1>6. Awaited(flight', doing')
  BY <1>5 DEF Awaited, FlightOk
<1>7. page = "receipt" => \A k \in DOMAIN flight' : ~flight'[k].stale
  <2>1. flight \in Seq(Asked)
    BY <1>3 DEF Fits
  <2>2. \A k \in DOMAIN flight' : flight'[k].stale = FALSE \/ (k \in DOMAIN flight /\ flight'[k] = flight[k])
    BY <1>4, <2>1
  <2> QED BY <2>2 DEF FlightOk
<1> QED BY <1>1, <1>5, <1>6, <1>7 DEF FlightInv, FlightOk

LEMMA NewestIs ==
  ASSUME Typings, FlightOk, ShownOk, page \in Page, NEW i \in DOMAIN flight
  PROVE  /\ Newest(i) \in Snap /\ flight[i].on \in Receipt
         /\ FlightInv /\ ShownInv => \A r \in Receipt : Behind(Newest(i)[r], server[r])
         /\ page = "case" => \A r \in seen : Reviewed(Newest(i), r)
<1>1. flight \in Seq(Asked)
  BY DEF FlightOk, Fits
<1>2. flight[i] \in Asked
  BY <1>1
<1>3. flight[i].on \in Receipt
  BY <1>2 DEF Asked
<1>4. /\ ~flight[i].stale => flight[i].says \in Snap
      /\ FlightInv /\ ~flight[i].stale => \A r \in Receipt : Behind(flight[i].says[r], server[r])
  BY DEF FlightInv, FlightOk, Fits, Snapped, Older
<1>5. CASE page = "case"
  <2>1. CASE flight[i].stale
    BY <1>3, <1>5, <2>1 DEF Newest, Typings, ShownInv, ShownOk, CheckedStaysShown, Reviewed
  <2>2. CASE ~flight[i].stale
    BY <1>3, <1>4, <1>5, <2>2 DEF Newest, FlightOk, SeenIn
  <2> QED BY <2>1, <2>2
<1>6. CASE page = "receipt"
  <2>1. ~flight[i].stale
    BY <1>6 DEF FlightOk
  <2>2. Newest(i) = [view EXCEPT ![flight[i].on] = flight[i].says[flight[i].on]]
    BY <1>6 DEF Newest
  <2>3. view \in Snap /\ (ShownInv => \A r \in Receipt : Behind(view[r], server[r]))
    BY DEF Typings, ShownInv
  <2> QED BY <1>3, <1>4, <1>6, <2>1, <2>2, <2>3 DEF Snap
<1> QED BY <1>5, <1>6 DEF Page

LEMMA ShownKeptOk ==
  ASSUME ShownOk, UNCHANGED view, page' \in {page, "left"}, \A r \in seen' : r \in seen /\ Reviewed(server', r)
  PROVE  ShownOk'
BY DEF ShownOk, CheckedStaysShown

LEMMA ShownKept ==
  ASSUME ShownInv, UNCHANGED view, page' \in {page, "left"}, Forward(server, server'),
         \A r \in seen' : r \in seen /\ Reviewed(server', r)
  PROVE  ShownInv'
<1>1. \A r \in Receipt : Behind(view'[r], server'[r])
  BY BehindOn DEF ShownInv, Forward
<1> QED BY <1>1, ShownKeptOk DEF ShownInv

LEMMA ShownAnew ==
  ASSUME ShownOk, UNCHANGED <<server, page>>,
         page = "case" => \A r \in seen : Reviewed(view', r),
         seen' = ShownChecked(view') \cup (seen \cap {r \in Receipt : server[r].status = "reviewed"})
  PROVE  /\ ShownOk' /\ seen' \subseteq Receipt /\ \A r \in seen' : r \in seen \/ Reviewed(server, r)
         /\ (\A r \in Receipt : Behind(view'[r], server[r])) => ShownInv'
BY DEF ShownInv, ShownOk, CheckedStaysShown, ShownChecked, Reviewed

LEMMA BoxKept ==
  ASSUME Typings, BoxInv, UNCHANGED <<sel, form, base>>, Forward(server, server'),
         \A p \in Part : owed'[p] # "nothing" => owed'[p] = owed[p] /\ dirty' = dirty,
         owed = Untyped => owed' = Untyped
  PROVE  BoxInv'
<1>1. TypedKept'
  BY DEF BoxInv, TypedKept
<1>2. sel' # NoReceipt => \A p \in Part : base'[p] # "first" => server'[sel'][p] # "first"
  BY DEF BoxInv, Typings, ReviewTypeOk, Forward, Behind
<1> QED BY <1>1, <1>2 DEF BoxInv

LEMMA BoxLoaded ==
  ASSUME NEW e \in Sheet, form' = Boxes(e), base' = Boxes(e), owed' = Untyped, sel' \in Receipt, Behind(e, server'[sel'])
  PROVE  BoxInv'
<1>1. \A p \in Part : owed'[p] = "nothing" /\ form'[p] = base'[p] /\ base'[p] = e[p]
  BY SheetIs DEF Untyped
<1>2. \A p \in Part : base'[p] # "first" => server'[sel'][p] # "first"
  BY <1>1 DEF Behind
<1>3. sel' # NoReceipt
  BY CaseReviewAssumption
<1> QED BY <1>1, <1>2, <1>3 DEF BoxInv, TypedKept

LEMMA BoxBlank ==
  ASSUME form' = Blank, base' = Blank, owed' = Untyped, sel' = NoReceipt
  PROVE  BoxInv'
BY DEF BoxInv, TypedKept, Untyped, Blank

LEMMA JobKept ==
  ASSUME Typings, JobInv, UNCHANGED <<doing, page>>, owed' \in {owed, Untyped}, Forward(server, server'),
         Saves /\ ~doing.loose /\ sel = doing.on => (server'[doing.on].status = "gone" \/ (UNCHANGED <<sel, base>> /\ (dirty => dirty')))
  PROVE  JobInv'
<1>1. (Saves' <=> Saves) /\ (SaveOver' <=> SaveOver)
  BY DEF Saves, SaveOver
<1>2. ASSUME Saves, ~doing.loose
      PROVE  Typist(doing.on, doing.boxes)' /\ (server[doing.on]["details"] # "first" => server'[doing.on]["details"] # "first")
  <2>1. doing \in Jobs
    BY <1>2 DEF Typings, Saves, NotDoing
  <2>2. doing.on \in Receipt
    BY <2>1 DEF Jobs
  <2>3. Behind(server[doing.on], server'[doing.on])
    BY <2>2 DEF Forward
  <2>4. server[doing.on].status = "gone" => server'[doing.on].status = "gone"
    BY <2>3 DEF Behind
  <2>5. server[doing.on]["details"] # "first" => server'[doing.on]["details"] # "first"
    BY <2>3 DEF Behind, Part
  <2>6. Typist(doing.on, doing.boxes)
    BY <1>2 DEF JobInv
  <2> QED BY <1>2, <2>4, <2>5, <2>6 DEF Typist
<1> QED BY <1>1, <1>2 DEF JobInv

\* The page is through with saving.
LEMMA JobOn ==
  ASSUME doing'.kind # "none" => doing'.step \notin {"details", "lines"} /\ page' # "left", SaveOver' => owed' = Untyped
  PROVE  JobInv'
BY DEF JobInv, Saves

\* The count of troubles stays in its bounds.
LEMMA TroublesBound ==
  ASSUME Typings, UNCHANGED troubles \/ Fails PROVE troubles' \in 0..MaxTroubles
BY CaseReviewAssumption DEF Typings, ReviewTypeOk, Fails

LEMMA NotTyped == ASSUME Typings, BoxInv, ~dirty PROVE owed = Untyped
<1>1. \A p \in Part : owed[p] = "nothing"
  BY DEF BoxInv, TypedKept
<1>2. owed \in [Part -> Value \cup {"nothing"}]
  BY DEF Typings, ReviewTypeOk
<1> QED BY <1>1, <1>2 DEF Untyped

LEMMA UntypedIs == Untyped \in [Part -> Value \cup {"nothing"}] /\ Blank \in [Part -> Value] /\ \A p \in Part : Untyped[p] = "nothing" /\ Blank[p] = "first"
BY DEF Untyped, Blank, Value

LEMMA ShowsOne == ASSUME NEW v PROVE FirstToShow(v) \in Receipt \cup {NoReceipt}
<1>1. ToCheck(v) # {} => (CHOOSE r \in ToCheck(v) : TRUE) \in ToCheck(v)
  OBVIOUS
<1>2. InCase(v) # {} => (CHOOSE r \in InCase(v) : TRUE) \in InCase(v)
  OBVIOUS
<1>3. ToCheck(v) \subseteq Receipt /\ InCase(v) \subseteq Receipt
  BY DEF ToCheck, InCase
<1> QED BY <1>1, <1>2, <1>3 DEF FirstToShow

\* Boxes filled from what the page has, or left with what is typed in them.
LEMMA FillBoxes ==
  ASSUME Typings, BoxInv, NEW v \in Snap, NEW want \in Receipt \cup {NoReceipt}, NEW keep \in BOOLEAN, Fill(v, want, keep),
         UNCHANGED server, \A r \in Receipt : Behind(v[r], server[r]), ~keep => owed = Untyped
  PROVE  /\ BoxInv' /\ view' = v /\ owed' \in {owed, Untyped} /\ dirty' \in BOOLEAN
         /\ sel' \in Receipt \cup {NoReceipt} /\ form' \in [Part -> Value] /\ base' \in [Part -> Value]
         /\ seen' = ShownChecked(view') \cup (seen \cap {r \in Receipt : server[r].status = "reviewed"})
         /\ keep /\ want = sel /\ sel # NoReceipt /\ v[sel].status # "gone" /\ dirty => UNCHANGED <<sel, base, dirty>>
<1>1. /\ view' = v /\ owed' = (IF sel' = sel THEN owed ELSE Untyped)
      /\ sel' = (IF want # NoReceipt /\ v[want].status # "gone" THEN want ELSE FirstToShow(v))
      /\ seen' = ShownChecked(v) \cup (seen \cap {r \in Receipt : server[r].status = "reviewed"})
  BY DEF Fill
<1>2. sel' \in Receipt \cup {NoReceipt}
  BY <1>1, ShowsOne
<1>3. CASE sel' = NoReceipt
  <2>1. form' = Blank /\ base' = Blank /\ dirty' = FALSE
    BY <1>3 DEF Fill
  <2>2. owed' = Untyped
    BY <1>1, <1>3 DEF BoxInv
  <2>3. BoxInv'
    BY <1>3, <2>1, <2>2, BoxBlank
  <2>4. ~(keep /\ want = sel /\ sel # NoReceipt /\ v[sel].status # "gone" /\ dirty)
    BY <1>1, <1>3
  <2> QED BY <1>1, <1>2, <2>1, <2>2, <2>3, <2>4, UntypedIs
<1>4. CASE sel' # NoReceipt /\ keep /\ sel' = sel /\ dirty
  <2>1. UNCHANGED <<form, base, dirty, owed, sel>>
    BY <1>1, <1>4 DEF Fill, LoadFrom
  <2>2. Forward(server, server')
    BY BehindItself DEF Forward, Typings, ReviewTypeOk, Snap, Sheet
  <2>3. BoxInv'
    BY <2>1, <2>2, BoxKept
  <2> QED BY <1>1, <1>2, <2>1, <2>3 DEF Typings, ReviewTypeOk
<1>5. CASE sel' # NoReceipt /\ ~(keep /\ sel' = sel /\ dirty)
  <2>1. sel' \in Receipt /\ v[sel'] \in Sheet /\ Behind(v[sel'], server'[sel'])
    BY <1>2, <1>5 DEF Snap
  <2>2. form' = Boxes(v[sel']) /\ base' = Boxes(v[sel']) /\ dirty' = FALSE
    BY <1>5 DEF Fill, LoadFrom
  <2>3. owed' = Untyped
    BY <1>1, <1>5, NotTyped
  <2>4. BoxInv'
    BY <2>1, <2>2, <2>3, BoxLoaded
  <2>5. Boxes(v[sel']) \in [Part -> Value]
    BY <2>1, SheetIs DEF Part
  <2>6. ~(keep /\ want = sel /\ sel # NoReceipt /\ v[sel].status # "gone" /\ dirty)
    BY <1>1, <1>5
  <2> QED BY <1>1, <1>2, <2>2, <2>3, <2>4, <2>5, <2>6
<1> QED BY <1>3, <1>4, <1>5

-----------------------------------------------------------------------------
(* One step after another.                                                   *)

\* A save is under way for boxes that are no longer the person's: they moved on to
\* another receipt, or pressed the button with nothing typed.
LooseSave == Saves /\ doing.loose

LEMMA ServerStays == ASSUME Typings, UNCHANGED server PROVE Forward(server, server') /\ NoneChecked(server, server') /\ server \in Snap
BY BehindItself DEF Forward, NoneChecked, Typings, ReviewTypeOk, Snap, Sheet

LEMMA TypingStep ==
  ASSUME ReviewInv, NEW ps \in SUBSET Part, Type(ps) PROVE ReviewInv'
<1>1. PICK v \in {[p \in Part |-> "typed"], base} :
        /\ form' = [p \in Part |-> IF p \in ps THEN v[p] ELSE form[p]]
        /\ owed' = [p \in Part |-> IF p \in ps THEN v[p] ELSE owed[p]]
  BY DEF Type
<1>2. dirty' = TRUE /\ UNCHANGED <<page, view, sel, base, server, doing, flight, seen, astray, missed, presses, troubles>>
  BY DEF Type
<1>3. v \in [Part -> Value] /\ \A p \in Part : v[p] \in {"typed", base[p]}
  BY DEF Value, ReviewInv, Typings, ReviewTypeOk
<1>4. form' \in [Part -> Value] /\ owed' \in [Part -> Value \cup {"nothing"}]
  BY <1>1, <1>3 DEF ReviewInv, Typings, ReviewTypeOk
<1>5. Typings'
  BY <1>2, <1>4, CaseReviewAssumption DEF ReviewInv, Typings, ReviewTypeOk, Type
<1>6. Typings /\ FlightInv /\ ShownInv /\ BoxInv /\ JobInv /\ Forward(server, server') /\ NoneChecked(server, server')
  BY <1>2, ServerStays DEF ReviewInv
<1>7. FlightInv'
  BY <1>2, <1>6, FlightKept
<1>8. ShownInv'
  <2>1. \A r \in seen' : r \in seen /\ Reviewed(server', r)
    BY <1>2, <1>6 DEF ShownInv, ShownOk
  <2> QED BY <1>2, <1>6, <2>1, ShownKept
<1>9. BoxInv'
  <2>1. sel # NoReceipt
    BY DEF Type, BoxesLocked
  <2>2. TypedKept'
    BY <1>1, <1>2, <1>6 DEF BoxInv, TypedKept
  <2>3. \A p \in Part : form'[p] \in {"typed", base'[p]}
    BY <1>1, <1>2, <1>3, <1>6 DEF BoxInv
  <2> QED BY <1>2, <1>6, <2>1, <2>2, <2>3 DEF BoxInv
<1>10. JobInv'
  <2>1. doing.kind # "none" => page # "case" /\ ~doing.saving
    BY DEF Type, BoxesLocked, HeldStill
  <2>2. ~Saves /\ ~SaveOver'
    BY <1>2, <1>6, <2>1 DEF JobInv, SaveOver, Saves
  <2> QED BY <1>2, <1>6, <2>2 DEF JobInv, Saves
<1> QED BY <1>2, <1>5, <1>7, <1>8, <1>9, <1>10 DEF ReviewInv, OnlyTyped, SavedIsTyped

LEMMA MovedOnIs ==
  ASSUME Typings, doing' = MovedOn
  PROVE  /\ doing' = NotDoing \/ doing' \in Jobs
         /\ (doing' = doing /\ ~Saves) \/ (Saves /\ doing' \in Jobs /\ doing'.loose /\ doing'.kind = doing.kind /\ doing'.step = doing.step /\ doing'.saving = doing.saving)
<1>1. CASE ~Saves
  BY <1>1 DEF MovedOn, Saves, Typings
<1>2. CASE Saves
  <2>1. doing \in Jobs
    BY <1>2 DEF Typings, Saves, NotDoing
  <2>2. doing' = [doing EXCEPT !.loose = TRUE]
    BY <1>2 DEF MovedOn, Saves
  <2> QED BY <1>2, <2>1, <2>2 DEF Jobs
<1> QED BY <1>1, <1>2

\* What is typed is given up with the receipt it was typed for.
LEMMA JobLeft ==
  ASSUME Typings, JobInv, doing' = MovedOn, owed' = Untyped, UNCHANGED page PROVE JobInv'
<1>1. CASE doing' = doing /\ ~Saves
  BY <1>1 DEF JobInv, Saves
<1>2. CASE Saves /\ doing' \in Jobs /\ doing'.loose /\ doing'.kind = doing.kind /\ doing'.step = doing.step /\ doing'.saving = doing.saving
  <2>1. doing.kind # "none" /\ doing.saving /\ page' # "left"
    BY <1>2 DEF JobInv, Saves
  <2> QED BY <1>2, <2>1 DEF JobInv
<1> QED BY <1>1, <1>2, MovedOnIs

LEMMA MoveStep ==
  ASSUME ReviewInv, NEW r \in Receipt, Move(r), UNCHANGED <<typings, presses>> PROVE ReviewInv'
<1>1. /\ sel' = r /\ form' = Boxes(view[r]) /\ base' = Boxes(view[r]) /\ dirty' = FALSE /\ owed' = Untyped /\ doing' = MovedOn
      /\ UNCHANGED <<page, view, server, flight, seen, astray, missed, troubles>>
  BY DEF Move, Show, LoadFrom
<1>2. Typings /\ FlightInv /\ ShownInv /\ BoxInv /\ JobInv /\ Forward(server, server') /\ NoneChecked(server, server')
  BY <1>1, ServerStays DEF ReviewInv
<1>3. view[r] \in Sheet /\ Behind(view[r], server'[r]) /\ Boxes(view[r]) \in [Part -> Value]
  <2>1. view[r] \in Sheet
    BY <1>2 DEF Typings, Snap
  <2> QED BY <1>1, <1>2, <2>1, SheetIs DEF ShownInv, ShownOk, Part
<1>4. Typings'
  <2>1. doing' = NotDoing \/ doing' \in Jobs
    BY <1>1, <1>2, MovedOnIs
  <2> QED BY <1>1, <1>2, <1>3, <2>1, UntypedIs DEF Typings, ReviewTypeOk
<1>5. FlightInv'
  <2>1. doing'.kind = doing.kind /\ doing'.step = doing.step
    BY <1>1, <1>2, MovedOnIs
  <2> QED BY <1>1, <1>2, <2>1, FlightKept
<1>6. ShownInv'
  <2>1. \A q \in seen' : q \in seen /\ Reviewed(server', q)
    BY <1>1, <1>2 DEF ShownInv, ShownOk
  <2> QED BY <1>1, <1>2, <2>1, ShownKept
<1>7. BoxInv'
  BY <1>1, <1>3, BoxLoaded
<1>8. JobInv'
  BY <1>1, <1>2, JobLeft
<1> QED BY <1>1, <1>4, <1>5, <1>6, <1>7, <1>8 DEF ReviewInv, OnlyTyped, SavedIsTyped

LEMMA OpenStep ==
  ASSUME ReviewInv, NEW r \in Receipt, OpenReceipt(r), UNCHANGED <<typings, presses>> PROVE ReviewInv'
<1>1. /\ page = "receipt" /\ view' = [view EXCEPT ![r] = server[r]]
      /\ sel' = r /\ form' = Boxes(server[r]) /\ base' = Boxes(server[r]) /\ dirty' = FALSE /\ owed' = Untyped /\ doing' = MovedOn
      /\ UNCHANGED <<page, server, flight, seen, astray, missed, troubles>>
  BY DEF OpenReceipt, LoadFrom
<1>2. Typings /\ FlightInv /\ ShownInv /\ BoxInv /\ JobInv /\ Forward(server, server') /\ NoneChecked(server, server') /\ server \in Snap
  BY <1>1, ServerStays DEF ReviewInv
<1>3. server[r] \in Sheet /\ Behind(server[r], server'[r]) /\ Boxes(server[r]) \in [Part -> Value]
  <2>1. server[r] \in Sheet
    BY <1>2 DEF Snap
  <2> QED BY <1>1, <1>2, <2>1, SheetIs, BehindItself DEF Part
<1>4. view' \in Snap /\ \A q \in Receipt : Behind(view'[q], server'[q])
  BY <1>1, <1>2, <1>3 DEF Snap, Typings, ShownInv, ShownOk
<1>5. Typings'
  <2>1. doing' = NotDoing \/ doing' \in Jobs
    BY <1>1, <1>2, MovedOnIs
  <2> QED BY <1>1, <1>2, <1>3, <1>4, <2>1, UntypedIs DEF Typings, ReviewTypeOk
<1>6. FlightInv'
  <2>1. doing'.kind = doing.kind /\ doing'.step = doing.step
    BY <1>1, <1>2, MovedOnIs
  <2> QED BY <1>1, <1>2, <2>1, FlightKept
<1>7. ShownInv'
  BY <1>1, <1>2, <1>4 DEF ShownInv, ShownOk, CheckedStaysShown
<1>8. BoxInv'
  BY <1>1, <1>3, BoxLoaded
<1>9. JobInv'
  BY <1>1, <1>2, JobLeft
<1> QED BY <1>1, <1>5, <1>6, <1>7, <1>8, <1>9 DEF ReviewInv, OnlyTyped, SavedIsTyped

\* A step that leaves the boxes, and all but where the page has got to.
LEMMA BoxesStay ==
  ASSUME Typings, BoxInv, UNCHANGED <<sel, form, base, dirty, owed>>, Forward(server, server') PROVE BoxInv'
BY BoxKept

LEMMA ShownStays ==
  ASSUME Typings, ShownInv, UNCHANGED <<view, page, server, seen>> PROVE ShownInv'
<1>1. \A q \in seen' : q \in seen /\ Reviewed(server', q)
  BY DEF ShownInv, ShownOk
<1> QED BY <1>1, ServerStays, ShownKept

LEMMA PollStep ==
  ASSUME ReviewInv, Poll, UNCHANGED <<typings, presses>> PROVE ReviewInv'
<1>1. /\ sel # NoReceipt /\ AskFor("poll", sel) /\ \A i \in DOMAIN flight : flight[i].by # "poll"
      /\ UNCHANGED <<page, view, sel, form, base, dirty, server, doing, owed, seen, astray, missed, troubles>>
  BY DEF Poll, pageVars, ghosts
<1>2. Typings /\ FlightInv /\ ShownInv /\ BoxInv /\ JobInv /\ Forward(server, server')
  BY <1>1, ServerStays DEF ReviewInv
<1>3. Typings'
  BY <1>1, <1>2 DEF Typings, ReviewTypeOk
<1>4. FlightInv'
  <2>1. sel \in Receipt
    BY <1>1, <1>2 DEF Typings, ReviewTypeOk
  <2> QED BY <1>1, <1>2, <2>1, FlightMore, OkToo
<1>5. ShownInv'
  BY <1>1, <1>2, ShownStays
<1>6. BoxInv'
  BY <1>1, <1>2, BoxesStay
<1>7. JobInv'
  BY <1>1, <1>2, JobKept
<1> QED BY <1>1, <1>3, <1>4, <1>5, <1>6, <1>7 DEF ReviewInv, OnlyTyped, SavedIsTyped

LEMMA LandedLeaves ==
  ASSUME FlightOk, NEW i \in DOMAIN flight, flight[i].by = "own", flight' = Landed(i) PROVE NoOwn(flight')
<1>1. flight \in Seq(Asked)
  BY DEF FlightInv, FlightOk, Fits
<1>2. Lands(flight, flight', i, page = "case" /\ ~flight[i].stale)
  BY <1>1, LandedLands
<1> QED BY <1>2, OwnIsOne

LEMMA PollShownStep ==
  ASSUME ReviewInv, NEW i \in DOMAIN flight, PollShown(i), UNCHANGED <<typings, presses>> PROVE ReviewInv'
<1>1. /\ page # "left" /\ flight' = Landed(i) /\ UNCHANGED <<server, doing, troubles, page, astray, missed>>
  BY DEF PollShown, pageVars, ghosts
<1>2. Typings /\ FlightInv /\ ShownInv /\ BoxInv /\ JobInv /\ Forward(server, server') /\ server \in Snap
  BY <1>1, ServerStays DEF ReviewInv
<1>3. PICK v : v = Newest(i)
  OBVIOUS
<1>4. page \in Page /\ v \in Snap /\ flight[i].on \in Receipt /\ (\A r \in Receipt : Behind(v[r], server[r])) /\ (page = "case" => \A r \in seen : Reviewed(v, r))
  <2>1. page \in Page
    BY <1>1, <1>2 DEF Typings, ReviewTypeOk
  <2> QED BY <1>2, <1>3, <2>1, NewestIs, OkToo
<1>5. CASE page = "case"
  <2>1. Fill(v, sel, TRUE)
    BY <1>3, <1>5 DEF PollShown
  <2>2. sel \in Receipt \cup {NoReceipt}
    BY <1>2 DEF Typings, ReviewTypeOk
  <2>3. /\ BoxInv' /\ view' = v /\ owed' \in {owed, Untyped} /\ dirty' \in BOOLEAN
        /\ sel' \in Receipt \cup {NoReceipt} /\ form' \in [Part -> Value] /\ base' \in [Part -> Value]
        /\ seen' = ShownChecked(view') \cup (seen \cap {r \in Receipt : server[r].status = "reviewed"})
        /\ sel # NoReceipt /\ v[sel].status # "gone" /\ dirty => UNCHANGED <<sel, base, dirty>>
    BY <1>1, <1>2, <1>4, <2>1, <2>2, FillBoxes
  <2>4. ShownInv' /\ seen' \subseteq Receipt /\ \A r \in seen' : r \in seen \/ Reviewed(server, r)
    BY <1>1, <1>2, <1>4, <2>3, ShownAnew, OkToo
  <2>5. Typings'
    BY <1>1, <1>2, <1>4, <2>3, <2>4, UntypedIs DEF Typings, ReviewTypeOk
  <2>6. FlightInv'
    BY <1>1, <1>2, <2>4, FlightGone, OkToo
  <2>7. JobInv'
    <3>1. ASSUME Saves, ~doing.loose, sel = doing.on
          PROVE  server'[doing.on].status = "gone" \/ (UNCHANGED <<sel, base>> /\ (dirty => dirty'))
      <4>1. doing \in Jobs
        BY <3>1, <1>2 DEF Typings, Saves, NotDoing
      <4>2. doing.on \in Receipt /\ sel # NoReceipt
        BY <3>1, <4>1, CaseReviewAssumption DEF Jobs
      <4>3. v[sel].status = "gone" => server'[doing.on].status = "gone"
        BY <1>1, <1>4, <3>1, <4>2 DEF Behind
      <4>4. server[doing.on].status = "gone" \/ dirty
        BY <1>2, <3>1 DEF JobInv, Typist
      <4> QED BY <1>1, <2>3, <4>2, <4>3, <4>4
    <3> QED BY <1>1, <1>2, <2>3, <3>1, JobKept
  <2> QED BY <1>1, <2>3, <2>4, <2>5, <2>6, <2>7 DEF ReviewInv, OnlyTyped, SavedIsTyped
<1>6. CASE page = "receipt" /\ flight[i].on # sel
  <2>1. UNCHANGED <<view, sel, form, base, dirty, owed, seen>>
    BY <1>6 DEF PollShown, pageVars, ghosts
  <2>2. Typings'
    BY <1>1, <1>2, <2>1 DEF Typings, ReviewTypeOk
  <2>3. FlightInv'
    <3>1. seen' \subseteq Receipt /\ \A r \in seen' : r \in seen \/ Reviewed(server, r)
      BY <1>2, <2>1 DEF Typings, ReviewTypeOk
    <3> QED BY <1>1, <1>2, <3>1, FlightGone, OkToo
  <2>4. ShownInv'
    BY <1>1, <1>2, <2>1, ShownStays
  <2>5. BoxInv'
    BY <1>2, <2>1, BoxesStay
  <2>6. JobInv'
    BY <1>1, <1>2, <2>1, JobKept
  <2> QED BY <1>1, <2>2, <2>3, <2>4, <2>5, <2>6 DEF ReviewInv, OnlyTyped, SavedIsTyped
<1>7. CASE page = "receipt" /\ flight[i].on = sel
  <2>1. view' = v /\ LoadFrom(v[sel], TRUE) /\ UNCHANGED <<sel, owed, seen>> /\ sel \in Receipt
    <3>1. page # "case" /\ ~(flight[i].on # sel)
      BY <1>7
    <3> QED BY <1>3, <1>4, <1>7, <3>1 DEF PollShown
  <2>2. v[sel] \in Sheet /\ Behind(v[sel], server'[sel]) /\ Boxes(v[sel]) \in [Part -> Value]
    <3>1. v[sel] \in Sheet
      BY <1>4, <2>1 DEF Snap
    <3> QED BY <1>1, <1>4, <2>1, <3>1, SheetIs DEF Part
  <2>3. IF dirty THEN UNCHANGED <<form, base, dirty>> ELSE form' = Boxes(v[sel]) /\ base' = Boxes(v[sel]) /\ dirty' = FALSE
    BY <2>1 DEF LoadFrom
  <2>4. Typings'
    BY <1>1, <1>2, <1>4, <2>1, <2>2, <2>3 DEF Typings, ReviewTypeOk
  <2>5. FlightInv'
    <3>1. seen' \subseteq Receipt /\ \A r \in seen' : r \in seen \/ Reviewed(server, r)
      BY <1>2, <2>1 DEF Typings, ReviewTypeOk
    <3> QED BY <1>1, <1>2, <3>1, FlightGone, OkToo
  <2>6. ShownInv'
    BY <1>1, <1>2, <1>4, <1>7, <2>1 DEF ShownInv, ShownOk, CheckedStaysShown
  <2>7. BoxInv'
    <3>1. CASE dirty
      BY <1>2, <2>1, <2>3, <3>1, BoxesStay
    <3>2. CASE ~dirty
      <4>1. owed' = Untyped
        BY <1>2, <2>1, <3>2, NotTyped
      <4>2. sel' \in Receipt /\ Behind(v[sel], server'[sel'])
        BY <2>1, <2>2
      <4> QED BY <2>2, <2>3, <3>2, <4>1, <4>2, BoxLoaded
    <3> QED BY <3>1, <3>2
  <2>8. JobInv'
    <3>1. ASSUME Saves, ~doing.loose, sel = doing.on
          PROVE  server'[doing.on].status = "gone" \/ (UNCHANGED <<sel, base>> /\ (dirty => dirty'))
      <4>1. server[doing.on].status = "gone" \/ dirty
        BY <1>2, <3>1 DEF JobInv, Typist
      <4> QED BY <1>1, <2>1, <2>3, <4>1
    <3> QED BY <1>1, <1>2, <2>1, <3>1, JobKept
  <2> QED BY <1>1, <2>4, <2>5, <2>6, <2>7, <2>8 DEF ReviewInv, OnlyTyped, SavedIsTyped
<1> QED BY <1>4, <1>5, <1>6, <1>7 DEF Page

\* What is set elsewhere.
LEMMA PutElsewhere ==
  ASSUME server \in Snap, NEW r \in Receipt, NEW e \in Sheet, server' = [server EXCEPT ![r] = e], Behind(server[r], e)
  PROVE  Forward(server, server') /\ (e.status \in {server[r].status, "needed", "gone"} => NoneChecked(server, server'))
         /\ \A q \in Receipt : server'[q] = IF q = r THEN e ELSE server[q]
<1>1. server' \in Snap /\ \A q \in Receipt : server'[q] = IF q = r THEN e ELSE server[q]
  BY DEF Snap
<1>2. \A q \in Receipt : Behind(server[q], server'[q])
  BY <1>1, BehindItself
<1>3. e.status \in {server[r].status, "needed", "gone"} => NoneChecked(server, server')
  BY <1>1 DEF NoneChecked, Reviewed
<1> QED BY <1>1, <1>2, <1>3 DEF Forward

LEMMA ElsewhereStep ==
  ASSUME ReviewInv, NEW r \in Receipt, Elsewhere(r), UNCHANGED <<typings, presses>> PROVE ReviewInv'
<1>1. /\ seen' = {q \in seen : server'[q].status = "reviewed"} /\ Fails
      /\ UNCHANGED <<page, view, sel, form, base, dirty, doing, flight, owed, astray, missed>>
  BY DEF Elsewhere, pageVars, Fails
<1>2. Typings /\ FlightInv /\ ShownInv /\ BoxInv /\ JobInv /\ server \in Snap /\ server[r] \in Sheet
  BY DEF ReviewInv, Typings, ReviewTypeOk, Snap, Sheet
<1>3. Forward(server, server') /\ NoneChecked(server, server')
  <2>1. CASE Open(r) /\ server' = [server EXCEPT ![r] = [@ EXCEPT !.details = "else", !.lines = "else"]]
    <3>1. PICK e : e = [server[r] EXCEPT !.details = "else", !.lines = "else"]
      OBVIOUS
    <3>2. e \in Sheet /\ e.status = server[r].status /\ \A p \in Part : e[p] = "else"
      BY <1>2, <3>1 DEF Sheet, Value, Part
    <3>3. Behind(server[r], e)
      BY <3>2 DEF Behind
    <3>4. server' = [server EXCEPT ![r] = e]
      BY <2>1, <3>1
    <3> QED BY <1>2, <3>2, <3>3, <3>4, PutElsewhere
  <2>2. CASE server' = [server EXCEPT ![r].status = "gone"]
    <3>1. PICK e : e = [server[r] EXCEPT !.status = "gone"]
      OBVIOUS
    <3>2. e \in Sheet /\ e.status = "gone" /\ \A p \in Part : e[p] = server[r][p]
      <4>1. server[r] \in Sheet /\ "gone" \in Standing
        BY <1>2 DEF Standing
      <4> QED BY ONLY <3>1, <4>1, SheetTold
    <3>3. Behind(server[r], e)
      BY <3>2 DEF Behind
    <3>4. server' = [server EXCEPT ![r] = e]
      BY <2>2, <3>1
    <3> QED BY <1>2, <3>2, <3>3, <3>4, PutElsewhere
  <2> QED BY <2>1, <2>2 DEF Elsewhere
<1>4. \A q \in seen' : q \in seen /\ Reviewed(server', q)
  BY <1>1 DEF Reviewed
<1>5. Typings'
  BY <1>1, <1>2, <1>3, <1>4, TroublesBound DEF Typings, ReviewTypeOk, Forward, Snap, Sheet
<1>6. FlightInv'
  <2>1. seen' \subseteq seen
    BY <1>4
  <2> QED BY <1>1, <1>2, <1>3, <2>1, FlightKept
<1>7. ShownInv'
  BY <1>1, <1>2, <1>3, <1>4, ShownKept
<1>8. BoxInv'
  BY <1>1, <1>2, <1>3, BoxesStay
<1>9. JobInv'
  BY <1>1, <1>2, <1>3, JobKept
<1> QED BY <1>1, <1>5, <1>6, <1>7, <1>8, <1>9 DEF ReviewInv, OnlyTyped, SavedIsTyped

\* A receipt read again.
LEMMA RewrittenIs ==
  ASSUME server \in Snap, NEW r \in Receipt, server[r].status # "gone", server' = Rewritten(r)
  PROVE  Forward(server, server') /\ NoneChecked(server, server') /\ \A q \in Receipt : server'[q].status = IF q = r THEN "needed" ELSE server[q].status
<1>1. PICK e : e = [status |-> "needed", details |-> "else", lines |-> "else"]
  OBVIOUS
<1>2. e \in Sheet /\ e.status = "needed" /\ \A p \in Part : e[p] = "else"
  BY <1>1 DEF Sheet, Value, Part, Standing
<1>3. Behind(server[r], e)
  BY <1>2 DEF Behind
<1>4. server' = [server EXCEPT ![r] = e]
  BY <1>1 DEF Rewritten
<1>5. /\ Forward(server, server') /\ NoneChecked(server, server')
      /\ \A q \in Receipt : server'[q] = IF q = r THEN e ELSE server[q]
  <2>1. e \in Sheet /\ e.status \in {server[r].status, "needed", "gone"}
    BY <1>2
  <2> QED BY <2>1, <1>3, <1>4, PutElsewhere
<1>6. ASSUME NEW q \in Receipt PROVE server'[q].status = IF q = r THEN "needed" ELSE server[q].status
  BY ONLY <1>2, <1>5
<1> QED BY <1>5, <1>6

LEMMA CheckedIs ==
  ASSUME server \in Snap, NEW r \in Receipt, NEW s \in Standing, server[r].status # "gone" \/ s = "gone",
         server' = [server EXCEPT ![r].status = s]
  PROVE  Forward(server, server') /\ \A q \in Receipt : server'[q].status = IF q = r THEN s ELSE server[q].status
<1>0. server[r] \in Sheet
  BY DEF Snap
<1>1. PICK e : e = [server[r] EXCEPT !.status = s]
  OBVIOUS
<1>2. e \in Sheet /\ e.status = s /\ \A p \in Part : e[p] = server[r][p]
  BY <1>0, <1>1, SheetTold
<1>3. Behind(server[r], e)
  BY <1>2 DEF Behind
<1>4. server' = [server EXCEPT ![r] = e]
  BY <1>1
<1>5. Forward(server, server') /\ \A q \in Receipt : server'[q] = IF q = r THEN e ELSE server[q]
  <2>1. e \in Sheet
    BY <1>2
  <2> QED BY <2>1, <1>3, <1>4, PutElsewhere
<1>6. ASSUME NEW q \in Receipt PROVE server'[q].status = IF q = r THEN s ELSE server[q].status
  BY ONLY <1>2, <1>5
<1> QED BY <1>5, <1>6

LEMMA ReadLandsStep ==
  ASSUME ReviewInv, NEW r \in Receipt, AReadLands(r), UNCHANGED <<typings, presses>> PROVE ReviewInv'
<1>1. /\ server[r].status = "reading" /\ server' = Rewritten(r)
      /\ UNCHANGED <<page, view, sel, form, base, dirty, doing, flight, owed, seen, astray, missed, troubles>>
  BY DEF AReadLands, pageVars, ghosts
<1>2. Typings /\ FlightInv /\ ShownInv /\ BoxInv /\ JobInv /\ server \in Snap
  BY DEF ReviewInv, Typings, ReviewTypeOk, Snap, Sheet
<1>3. Forward(server, server') /\ NoneChecked(server, server') /\ \A q \in Receipt : server'[q].status = IF q = r THEN "needed" ELSE server[q].status
  <2>1. server[r].status # "gone"
    BY <1>1
  <2> QED BY <1>1, <1>2, <2>1, RewrittenIs
<1>4. \A q \in seen' : q \in seen /\ Reviewed(server', q)
  BY <1>1, <1>2, <1>3 DEF ShownInv, ShownOk, Reviewed, Typings, ReviewTypeOk
<1>5. Typings'
  BY <1>1, <1>2, <1>3 DEF Typings, ReviewTypeOk, Forward, Snap, Sheet
<1>6. FlightInv'
  BY <1>1, <1>2, <1>3, FlightKept
<1>7. ShownInv'
  BY <1>1, <1>2, <1>3, <1>4, ShownKept
<1>8. BoxInv'
  BY <1>1, <1>2, <1>3, BoxesStay
<1>9. JobInv'
  BY <1>1, <1>2, <1>3, JobKept
<1> QED BY <1>1, <1>5, <1>6, <1>7, <1>8, <1>9 DEF ReviewInv, OnlyTyped, SavedIsTyped

\* The page has asked for nothing while it acts.
LEMMA NothingAwaited ==
  ASSUME FlightOk, doing.kind = "none" \/ doing.step \notin {"shown", "list"} PROVE NoOwn(flight)
BY DEF FlightInv, FlightOk, Awaited

LEMMA ClaimStep ==
  ASSUME ReviewInv, ClaimCase, UNCHANGED <<typings, presses>> PROVE ReviewInv'
<1>1. /\ doing.step = "act" /\ doing' = NotDoing /\ page' \in {page, "left"} /\ (UNCHANGED troubles \/ Fails)
      /\ UNCHANGED <<view, sel, form, base, dirty, server, flight, owed, seen, astray, missed>>
  BY DEF ClaimCase, ghosts, Busy
<1>2. Typings /\ FlightInv /\ ShownInv /\ BoxInv /\ JobInv /\ Forward(server, server')
  BY <1>1, ServerStays DEF ReviewInv
<1>3. Typings'
  BY <1>1, <1>2, TroublesBound DEF Typings, ReviewTypeOk
<1>4. FlightInv'
  BY <1>1, <1>2, NothingAwaited, OkToo, FlightKept
<1>5. ShownInv'
  <2>1. \A q \in seen' : q \in seen /\ Reviewed(server', q)
    BY <1>1, <1>2 DEF ShownInv, ShownOk
  <2> QED BY <1>1, <1>2, <2>1, ShownKept
<1>6. BoxInv'
  BY <1>1, <1>2, BoxesStay
<1>7. JobInv'
  <2>1. doing'.kind = "none" /\ ~SaveOver'
    BY <1>1 DEF NotDoing, SaveOver
  <2> QED BY <2>1, JobOn
<1> QED BY <1>1, <1>3, <1>4, <1>5, <1>6, <1>7 DEF ReviewInv, OnlyTyped, SavedIsTyped

\* A job under way is one of the page's.
LEMMA BusyIs == ASSUME Typings, JobInv, doing.kind # "none" PROVE doing \in Jobs /\ page \in Page /\ page # "left"
BY DEF Typings, NotDoing, JobInv, ReviewTypeOk

LEMMA AskAgainStep ==
  ASSUME ReviewInv, AskAgain, UNCHANGED <<typings, presses>> PROVE ReviewInv'
<1>1. /\ doing.kind # "none" /\ (doing.step = "ask" \/ (doing.step = "act" /\ doing.kind = "bulk"))
      /\ doing' = [doing EXCEPT !.step = IF doing.step = "act" THEN "list" ELSE "shown"]
      /\ AskFor("own", doing.on)
      /\ UNCHANGED <<page, view, sel, form, base, dirty, server, owed, seen, astray, missed, troubles>>
  BY DEF AskAgain, pageVars, ghosts, Busy
<1>2. Typings /\ FlightInv /\ ShownInv /\ BoxInv /\ JobInv /\ Forward(server, server')
  BY <1>1, ServerStays DEF ReviewInv
<1>3. doing \in Jobs /\ page # "left" /\ doing.on \in Receipt
  BY <1>1, <1>2, BusyIs DEF Jobs
<1>4. doing' \in Jobs /\ doing'.kind = doing.kind /\ doing'.saving = doing.saving /\ doing'.step \in {"list", "shown"}
  BY <1>1, <1>3 DEF Jobs, Steps
<1>5. Typings'
  BY <1>1, <1>2, <1>4 DEF Typings, ReviewTypeOk
<1>6. FlightInv'
  <2>1. \A i \in DOMAIN flight : flight[i].by # "own"
    BY <1>1, <1>2, NothingAwaited, OkToo DEF NoOwn
  <2>2. doing'.kind # "none"
    BY <1>1, <1>4
  <2> QED BY <1>1, <1>2, <1>3, <1>4, <2>1, <2>2, FlightMore, OkToo
<1>7. ShownInv'
  BY <1>1, <1>2, ShownStays
<1>8. BoxInv'
  BY <1>1, <1>2, BoxesStay
<1>9. JobInv'
  <2>1. SaveOver' => SaveOver
    BY <1>1, <1>4 DEF SaveOver, Saves, GivesUp
  <2>2. SaveOver' => owed' = Untyped
    BY <1>1, <1>2, <2>1 DEF JobInv
  <2> QED BY <1>1, <1>3, <1>4, <2>2, JobOn
<1> QED BY <1>1, <1>5, <1>6, <1>7, <1>8, <1>9 DEF ReviewInv, OnlyTyped, SavedIsTyped

LEMMA OwnLostStep ==
  ASSUME ReviewInv, NEW i \in DOMAIN flight, OwnLost(i), UNCHANGED <<typings, presses>> PROVE ReviewInv'
<1>1. /\ flight[i].by = "own" /\ Fails /\ flight' = ListOps!RemoveAt(flight, i) /\ doing' = NotDoing
      /\ UNCHANGED <<page, view, sel, form, base, dirty, server, owed, seen, astray, missed>>
  BY DEF OwnLost, pageVars, ghosts
<1>2. Typings /\ FlightInv /\ ShownInv /\ BoxInv /\ JobInv /\ Forward(server, server')
  BY <1>1, ServerStays DEF ReviewInv
<1>3. Typings'
  BY <1>1, <1>2, TroublesBound DEF Typings, ReviewTypeOk
<1>4. FlightInv'
  BY <1>1, <1>2, FlightLost, OkToo
<1>5. ShownInv'
  BY <1>1, <1>2, ShownStays
<1>6. BoxInv'
  BY <1>1, <1>2, BoxesStay
<1>7. JobInv'
  <2>1. doing'.kind = "none" /\ ~SaveOver'
    BY <1>1 DEF NotDoing, SaveOver
  <2> QED BY <2>1, JobOn
<1> QED BY <1>1, <1>3, <1>4, <1>5, <1>6, <1>7 DEF ReviewInv, OnlyTyped, SavedIsTyped

LEMMA BulkListedStep ==
  ASSUME ReviewInv, NEW i \in DOMAIN flight, BulkListed(i), UNCHANGED <<typings, presses>> PROVE ReviewInv'
<1>1. /\ flight[i].by = "own" /\ doing.kind # "none" /\ doing.step = "list" /\ view' = Newest(i)
      /\ seen' = ShownChecked(view') \cup (seen \cap {r \in Receipt : server[r].status = "reviewed"})
      /\ flight' = Landed(i)
      /\ UNCHANGED <<page, sel, form, base, dirty, server, owed, astray, missed, troubles>>
  BY DEF BulkListed, Busy
<1>2. Typings /\ FlightInv /\ ShownInv /\ BoxInv /\ JobInv /\ Forward(server, server')
  BY <1>1, ServerStays DEF ReviewInv
<1>3. doing \in Jobs /\ page \in Page /\ page # "left"
  BY <1>1, <1>2, BusyIs
<1>4. view' \in Snap /\ (\A r \in Receipt : Behind(view'[r], server[r])) /\ (page = "case" => \A r \in seen : Reviewed(view', r))
  <2>1. PICK v : v = Newest(i)
    OBVIOUS
  <2>2. v \in Snap /\ (\A r \in Receipt : Behind(v[r], server[r])) /\ (page = "case" => \A r \in seen : Reviewed(v, r))
    BY <1>2, <1>3, <2>1, NewestIs, OkToo
  <2> QED BY <1>1, <2>1, <2>2
<1>5. doing' \in Jobs /\ doing'.kind = doing.kind /\ doing'.saving = doing.saving /\ doing'.step = "each"
  <2>1. PICK unflagged \in SUBSET ToCheck(view') : doing' = [doing EXCEPT !.step = "each", !.todo = unflagged]
    BY DEF BulkListed
  <2>2. unflagged \subseteq Receipt
    BY <2>1 DEF ToCheck
  <2> QED BY <1>3, <2>1, <2>2 DEF Jobs, Steps
<1>6. ShownInv' /\ seen' \subseteq Receipt /\ \A r \in seen' : r \in seen \/ Reviewed(server, r)
  BY <1>1, <1>2, <1>4, ShownAnew, OkToo
<1>7. Typings'
  BY <1>1, <1>2, <1>4, <1>5, <1>6 DEF Typings, ReviewTypeOk
<1>8. FlightInv'
  BY <1>1, <1>2, <1>6, LandedLeaves, OkToo, FlightGone
<1>9. BoxInv'
  BY <1>1, <1>2, BoxesStay
<1>10. JobInv'
  <2>1. SaveOver' => SaveOver
    BY <1>1, <1>5 DEF SaveOver, Saves
  <2>2. SaveOver' => owed' = Untyped
    BY <1>1, <1>2, <2>1 DEF JobInv
  <2> QED BY <1>1, <1>3, <1>5, <2>2, JobOn
<1> QED BY <1>1, <1>6, <1>7, <1>8, <1>9, <1>10 DEF ReviewInv, OnlyTyped, SavedIsTyped

LEMMA BulkOneStep ==
  ASSUME ReviewInv, BulkOne, UNCHANGED <<typings, presses>> PROVE ReviewInv'
<1>1. /\ doing.kind # "none" /\ doing.step = "each"
      /\ UNCHANGED <<page, view, sel, form, base, dirty, flight, owed, seen, astray, missed>>
  BY DEF BulkOne, Busy, pageVars, ghosts
<1>2. Typings /\ FlightInv /\ ShownInv /\ BoxInv /\ JobInv /\ server \in Snap
  BY DEF ReviewInv, Typings, ReviewTypeOk, Snap, Sheet
<1>3. doing \in Jobs /\ doing.todo \subseteq Receipt /\ page # "left"
  BY <1>1, <1>2, BusyIs DEF Jobs
<1>4. /\ doing' \in Jobs /\ doing'.kind = doing.kind /\ doing'.saving = doing.saving /\ doing'.step \in {"ask", "each"}
      /\ Forward(server, server') /\ (\A q \in Receipt : Reviewed(server, q) => Reviewed(server', q)) /\ (UNCHANGED troubles \/ Fails)
  <2>1. CASE doing' = [doing EXCEPT !.step = "ask"] /\ UNCHANGED <<server, troubles>>
    BY <1>1, <1>2, <1>3, <2>1, ServerStays DEF Jobs, Steps
  <2>2. ASSUME NEW r \in doing.todo, Open(r), server' = [server EXCEPT ![r].status = "reviewed"],
               doing' = [doing EXCEPT !.todo = @ \ {r}], UNCHANGED troubles
        PROVE  <1>4
    <3>1. r \in Receipt /\ server[r].status # "gone" /\ "reviewed" \in Standing
      BY <1>3, <2>2 DEF Open, Standing
    <3>2. Forward(server, server') /\ \A q \in Receipt : server'[q].status = IF q = r THEN "reviewed" ELSE server[q].status
      BY <1>2, <2>2, <3>1, CheckedIs
    <3>3. doing' \in Jobs /\ doing'.kind = doing.kind /\ doing'.saving = doing.saving /\ doing'.step = doing.step
      BY <1>3, <2>2 DEF Jobs
    <3> QED BY <1>1, <2>2, <3>2, <3>3 DEF Reviewed
  <2>3. ASSUME NEW r \in doing.todo, Fails \/ UNCHANGED troubles, doing' = [doing EXCEPT !.step = "ask", !.todo = {r}], UNCHANGED server
        PROVE  <1>4
    <3>0. {r} \in SUBSET Receipt
      BY <1>3, <2>3
    <3>1. doing' \in Jobs /\ doing'.kind = doing.kind /\ doing'.saving = doing.saving /\ doing'.step = "ask"
      BY <1>3, <2>3, <3>0 DEF Jobs, Steps
    <3> QED BY <1>2, <2>3, <3>1, ServerStays
  <2> QED BY <2>1, <2>2, <2>3 DEF BulkOne
<1>5. \A q \in seen' : q \in seen /\ Reviewed(server', q)
  BY <1>1, <1>2, <1>4 DEF ShownInv, ShownOk, Typings, ReviewTypeOk
<1>6. Typings'
  BY <1>1, <1>2, <1>4, TroublesBound DEF Typings, ReviewTypeOk, Forward, Snap, Sheet
<1>7. FlightInv'
  BY <1>1, <1>2, <1>4, NothingAwaited, OkToo, FlightKept
<1>8. ShownInv'
  BY <1>1, <1>2, <1>4, <1>5, ShownKept
<1>9. BoxInv'
  BY <1>1, <1>2, <1>4, BoxesStay
<1>10. JobInv'
  <2>1. SaveOver' => SaveOver
    BY <1>1, <1>4 DEF SaveOver, Saves
  <2>2. SaveOver' => owed' = Untyped
    BY <1>1, <1>2, <2>1 DEF JobInv
  <2> QED BY <1>1, <1>3, <1>4, <2>2, JobOn
<1> QED BY <1>1, <1>6, <1>7, <1>8, <1>9, <1>10 DEF ReviewInv, OnlyTyped, SavedIsTyped

\* A part of a receipt written by a save.
LEMMA WrittenIs ==
  ASSUME server \in Snap, doing \in Jobs, NEW p \in Part, Written(p), doing.boxes[p] = "typed"
  PROVE  /\ Forward(server, server') /\ NoneChecked(server, server') /\ server'[doing.on][p] # "first"
         /\ \A q \in Receipt : server'[q].status = server[q].status
<1>1. doing.on \in Receipt /\ server[doing.on] \in Sheet
  BY DEF Jobs, Snap
<1>2. PICK on \in Receipt, h \in Sheet, x \in Value : on = doing.on /\ h = server[on] /\ x = "typed"
  BY <1>1 DEF Value
<1>3. PICK e : e = [h EXCEPT ![p] = x]
  OBVIOUS
<1>4. e \in Sheet /\ e.status = h.status /\ e[p] = "typed" /\ \A q \in Part : q # p => e[q] = h[q]
  BY <1>2, <1>3, SheetPut
<1>5. Behind(server[on], e)
  BY <1>2, <1>4 DEF Behind
<1>6. server' = [server EXCEPT ![on] = e]
  BY <1>2, <1>3 DEF Written
<1>7. Forward(server, server') /\ NoneChecked(server, server') /\ \A q \in Receipt : server'[q] = IF q = on THEN e ELSE server[q]
  BY <1>2, <1>4, <1>5, <1>6, PutElsewhere
<1> QED BY <1>2, <1>4, <1>7

\* Once a save is through, nothing typed is left over.
LEMMA SettleIs ==
  ASSUME Typings, BoxInv, NEW j \in Jobs, NEW srv, Settle(j, srv), page \in Page, UNCHANGED <<page, sel, form, base>>,
         Forward(server, server'), j.loose => owed = Untyped
  PROVE  doing' \in Jobs /\ owed' = Untyped /\ dirty' = FALSE /\ BoxInv' /\ JobInv'
<1>1. dirty' = FALSE /\ owed' = Untyped /\ doing' = [j EXCEPT !.step = NextStep(j.kind), !.boxes = Blank, !.owed = Untyped, !.loose = FALSE]
  BY DEF Settle
<1>2. doing' \in Jobs /\ doing'.kind = j.kind /\ doing'.step \in {"ask", "act"}
  BY <1>1, UntypedIs DEF Jobs, Steps, NextStep
<1>3. BoxInv'
  BY <1>1, UntypedIs, BoxKept
<1>4. JobInv'
  <2>1. page' # "left"
    BY DEF Page
  <2> QED BY <1>1, <1>2, <2>1, JobOn
<1> QED BY <1>1, <1>2, <1>3, <1>4

LEMMA SaidSaved ==
  ASSUME NEW j, NEW srv, Settle(j, srv), SavedIsTyped, \A p \in Part : ~j.loose /\ j.boxes[p] = "typed" => srv[j.on][p] # "first"
  PROVE  SavedIsTyped'
BY DEF Settle, SavedIsTyped

LEMMA StartStep ==
  ASSUME ReviewInv, NEW kind \in AnyKind, Start(kind) PROVE ReviewInv'
<1>0. PICK saves : saves = (~GivesUp(kind) /\ (kind \in {"bulk", "claim"} => dirty))
  OBVIOUS
<1>1. PICK j : j = [kind |-> kind, on |-> sel, boxes |-> form, owed |-> owed, loose |-> ~dirty, saving |-> saves, todo |-> {}, step |-> "act"]
  OBVIOUS
<1>2. /\ page # "left" /\ doing.kind = "none" /\ sel # NoReceipt /\ presses < MaxJobs /\ presses' = presses + 1
      /\ UNCHANGED <<page, view, sel, form, base, server, flight, seen, astray, typings, troubles>>
      /\ IF ~saves THEN doing' = [j EXCEPT !.boxes = Blank, !.owed = Untyped, !.loose = FALSE] /\ UNCHANGED <<dirty, owed, missed>>
         ELSE IF Sends(j, "details") THEN doing' = [j EXCEPT !.step = "details"] /\ UNCHANGED <<dirty, owed, missed>>
         ELSE IF Sends(j, "lines") THEN doing' = [j EXCEPT !.step = "lines"] /\ UNCHANGED <<dirty, owed, missed>>
         ELSE Settle(j, server)
  BY <1>0, <1>1 DEF Start
<1>3. Typings /\ FlightInv /\ ShownInv /\ BoxInv /\ JobInv /\ Forward(server, server') /\ NoneChecked(server, server') /\ NoOwn(flight)
  BY <1>2, ServerStays, NothingAwaited, OkToo DEF ReviewInv
<1>4. /\ j \in Jobs /\ j.kind = kind /\ j.on = sel /\ j.boxes = form /\ j.loose = ~dirty /\ j.saving = saves /\ sel \in Receipt /\ page \in Page
  <2>1. saves \in BOOLEAN /\ (~dirty) \in BOOLEAN
    BY <1>0
  <2>2. sel \in Receipt /\ page \in Page /\ form \in [Part -> Value] /\ owed \in [Part -> Value \cup {"nothing"}] /\ dirty \in BOOLEAN
    BY <1>2, <1>3 DEF Typings, ReviewTypeOk
  <2> QED BY <1>1, <2>1, <2>2 DEF Jobs, Steps
<1>5. presses' \in 0..MaxJobs
  BY <1>2, <1>3, CaseReviewAssumption DEF Typings, ReviewTypeOk
<1>6. FlightInv'
  BY <1>2, <1>3, FlightKept
<1>7. ShownInv'
  BY <1>2, <1>3, ShownStays
<1>8. ~dirty => owed = Untyped
  BY <1>3, NotTyped
<1>9. ASSUME doing' \in Jobs, owed' = owed \/ owed' = Untyped, dirty' \in BOOLEAN PROVE Typings'
  BY <1>2, <1>3, <1>5, <1>9, UntypedIs DEF Typings, ReviewTypeOk
<1>10. CASE ~saves
  <2>1. doing' = [j EXCEPT !.boxes = Blank, !.owed = Untyped, !.loose = FALSE] /\ UNCHANGED <<dirty, owed, missed>>
    BY <1>2, <1>10
  <2>2. doing' \in Jobs /\ doing'.kind = kind /\ doing'.step = "act" /\ ~doing'.saving
    BY <1>1, <1>4, <1>10, <2>1, UntypedIs DEF Jobs
  <2>3. BoxInv'
    BY <1>2, <1>3, <2>1, BoxesStay
  <2>4. SaveOver' => owed' = Untyped
    BY <1>0, <1>8, <1>10, <2>1, <2>2 DEF SaveOver, GivesUp
  <2>5. JobInv'
    BY <1>2, <2>2, <2>4, JobOn
  <2>6. Typings'
    BY <1>3, <1>9, <2>1, <2>2 DEF Typings
  <2> QED BY <1>2, <1>6, <1>7, <2>1, <2>3, <2>5, <2>6 DEF ReviewInv, OnlyTyped, SavedIsTyped
<1>11. ASSUME saves, NEW p \in Part, Sends(j, p), doing' = [j EXCEPT !.step = p], UNCHANGED <<dirty, owed, missed>>,
              p = "lines" => ~Sends(j, "details")
       PROVE  ReviewInv'
  <2>1. doing' \in Jobs /\ doing'.kind = kind /\ doing'.step = p /\ doing'.saving /\ doing'.on = sel /\ doing'.boxes = form /\ doing'.loose = ~dirty
    BY <1>1, <1>4, <1>11 DEF Jobs, Steps, Part
  <2>2. BoxInv'
    BY <1>2, <1>3, <1>11, BoxesStay
  <2>3. form[p] = "typed" /\ \A q \in Part : form[q] \in {"typed", base[q]}
    BY <1>3, <1>4, <1>11 DEF BoxInv, Sends
  <2>4. p = "lines" /\ form["details"] = "typed" => server[sel]["details"] # "first"
    <3>1. p = "lines" => form["details"] = base["details"]
      BY <1>4, <1>11 DEF Sends
    <3> QED BY <1>2, <1>3, <3>1 DEF BoxInv, Part
  <2>5. JobInv'
    <3>1. page' # "left" /\ ~SaveOver'
      BY <1>2, <2>1 DEF SaveOver, Saves, Part
    <3>2. ~doing'.loose => Typist(doing.on, doing.boxes)'
      BY <1>2, <1>11, <2>1, <2>3 DEF Typist
    <3>3. doing'.step = "lines" /\ doing'.boxes["details"] = "typed" => server'[doing'.on]["details"] # "first"
      BY <1>2, <2>1, <2>4
    <3> QED BY <2>1, <2>3, <3>1, <3>2, <3>3 DEF JobInv
  <2>6. Typings'
    BY <1>3, <1>9, <1>11, <2>1 DEF Typings
  <2> QED BY <1>2, <1>6, <1>7, <1>11, <2>2, <2>5, <2>6 DEF ReviewInv, OnlyTyped, SavedIsTyped
<1>12. CASE saves /\ ~Sends(j, "details") /\ ~Sends(j, "lines")
  <2>1. Settle(j, server)
    BY <1>2, <1>12
  <2>2. j.loose => owed = Untyped
    BY <1>4, <1>8
  <2>3. doing' \in Jobs /\ owed' = Untyped /\ dirty' = FALSE /\ BoxInv' /\ JobInv'
    BY <1>2, <1>3, <1>4, <2>1, <2>2, SettleIs
  <2>4. \A p \in Part : j.boxes[p] = "typed" => server[j.on][p] # "first"
    BY <1>2, <1>3, <1>4, <1>12 DEF BoxInv, Sends, Part
  <2>5. SavedIsTyped'
    BY <2>1, <2>4, SaidSaved DEF ReviewInv
  <2>6. Typings'
    BY <1>9, <2>3
  <2> QED BY <1>2, <1>6, <1>7, <2>3, <2>5, <2>6 DEF ReviewInv, OnlyTyped
<1> QED BY <1>2, <1>10, <1>11, <1>12 DEF Part

LEMMA SaveStep ==
  ASSUME ReviewInv, ~LooseSave, SaveDetails \/ SaveLines, UNCHANGED <<typings, presses>> PROVE ReviewInv'
<1>1. PICK p \in Part : Busy(p) /\ ((p = "details" /\ SaveDetails) \/ (p = "lines" /\ SaveLines))
  BY DEF SaveDetails, SaveLines, Part
<1>2. /\ doing.kind # "none" /\ doing.step = p /\ Saves /\ ~doing.loose
      /\ UNCHANGED <<page, view, sel, form, base, flight, seen>>
  BY <1>1 DEF Busy, LooseSave, Saves, Part, SaveDetails, SaveLines
<1>3. Typings /\ FlightInv /\ ShownInv /\ BoxInv /\ JobInv /\ server \in Snap /\ OnlyTyped /\ SavedIsTyped
  BY DEF ReviewInv, Typings, ReviewTypeOk, Snap, Sheet
<1>4. doing \in Jobs /\ page \in Page /\ page # "left" /\ doing.on \in Receipt
  BY <1>2, <1>3, BusyIs DEF Jobs
<1>5. /\ doing.boxes[p] = "typed" /\ doing.saving /\ Typist(doing.on, doing.boxes)
      /\ p = "lines" /\ doing.boxes["details"] = "typed" => server[doing.on]["details"] # "first"
  BY <1>2, <1>3 DEF JobInv
<1>6. Open(doing.on) => sel = doing.on /\ dirty /\ \A q \in Part : doing.boxes[q] \in {"typed", base[q]}
  BY <1>5 DEF Open, Typist
<1>7. Astray(p) => OnlyTyped'
  BY <1>3, <1>5 DEF Astray, OnlyTyped
<1>8. ASSUME Written(p) \/ UNCHANGED server
      PROVE  Forward(server, server') /\ NoneChecked(server, server') /\ FlightInv' /\ ShownInv'
             /\ server' \in Snap /\ (Written(p) => server'[doing.on][p] # "first")
  <2>1. Forward(server, server') /\ NoneChecked(server, server') /\ (Written(p) => server'[doing.on][p] # "first")
        /\ \A q \in Receipt : server'[q].status = server[q].status
    BY <1>3, <1>4, <1>5, <1>8, WrittenIs, ServerStays
  <2>2. NoOwn(flight)
    BY <1>2, <1>3, NothingAwaited, OkToo DEF Part
  <2>3. FlightInv'
    BY <1>2, <1>3, <2>1, <2>2, FlightKept
  <2>4. \A q \in seen' : q \in seen /\ Reviewed(server', q)
    BY <1>2, <1>3, <2>1 DEF ShownInv, ShownOk, Typings, ReviewTypeOk, Reviewed
  <2>5. ShownInv'
    BY <1>2, <1>3, <2>1, <2>4, ShownKept
  <2> QED BY <2>1, <2>3, <2>5 DEF Forward
<1>9. ASSUME server' \in Snap, doing' \in Jobs \/ doing' = NotDoing, dirty' \in BOOLEAN, owed' \in [Part -> Value \cup {"nothing"}],
             UNCHANGED troubles \/ Fails
      PROVE  Typings'
  BY <1>2, <1>3, <1>9, TroublesBound DEF Typings, ReviewTypeOk, Snap, Sheet
<1>10. ASSUME Written(p) \/ UNCHANGED server, OnlyTyped', doing' = NotDoing, UNCHANGED <<dirty, owed, missed>>, UNCHANGED troubles \/ Fails
       PROVE  ReviewInv'
  <2>1. Forward(server, server') /\ FlightInv' /\ ShownInv' /\ server' \in Snap
    BY <1>8, <1>10
  <2>2. BoxInv'
    BY <1>2, <1>3, <1>10, <2>1, BoxesStay
  <2>3. JobInv'
    <3>1. doing'.kind = "none" /\ ~SaveOver'
      BY <1>10 DEF NotDoing, SaveOver
    <3> QED BY <3>1, JobOn
  <2>4. dirty' \in BOOLEAN /\ owed' \in [Part -> Value \cup {"nothing"}]
    BY <1>3, <1>10 DEF Typings, ReviewTypeOk
  <2>5. Typings'
    BY <1>9, <1>10, <2>1, <2>4
  <2> QED BY <1>3, <1>10, <2>1, <2>2, <2>3, <2>5 DEF ReviewInv, SavedIsTyped
<1>11. ASSUME Open(doing.on), Written(p), Astray(p), UNCHANGED troubles, Settle(doing, server'), p = "details" => ~Sends(doing, "lines")
       PROVE  ReviewInv'
  <2>1. Forward(server, server') /\ FlightInv' /\ ShownInv' /\ server' \in Snap /\ server'[doing.on][p] # "first"
    BY <1>8, <1>11
  <2>2. doing' \in Jobs /\ owed' = Untyped /\ dirty' = FALSE /\ BoxInv' /\ JobInv'
    BY <1>2, <1>3, <1>4, <1>11, <2>1, SettleIs
  <2>3. ASSUME NEW q \in Part, doing.boxes[q] = "typed" PROVE server'[doing.on][q] # "first"
    <3>1. Behind(server[doing.on], server'[doing.on])
      BY <1>4, <2>1 DEF Forward
    <3>2. CASE q = p
      BY <2>1, <3>2
    <3>3. CASE q = "details" /\ p = "lines"
      BY <1>5, <2>3, <3>1, <3>3 DEF Behind
    <3>4. CASE q = "lines" /\ p = "details"
      <4>1. base["lines"] = "typed" /\ sel = doing.on /\ sel # NoReceipt
        BY <1>4, <1>6, <1>11, <2>3, <3>4, CaseReviewAssumption DEF Sends
      <4>2. server[doing.on]["lines"] # "first"
        BY <1>3, <2>3, <3>4, <4>1 DEF BoxInv
      <4> QED BY <3>1, <3>4, <4>2, <2>3 DEF Behind
    <3> QED BY <3>2, <3>3, <3>4 DEF Part
  <2>4. SavedIsTyped'
    BY <1>3, <1>11, <2>3, SaidSaved
  <2>5. Typings'
    BY <1>9, <1>11, <2>1, <2>2, UntypedIs
  <2>6. OnlyTyped'
    BY <1>7, <1>11
  <2> QED BY <2>1, <2>2, <2>4, <2>5, <2>6 DEF ReviewInv
<1>12. ASSUME p = "details", Open(doing.on), Written(p), Astray(p), UNCHANGED <<troubles, dirty, missed>>, Sends(doing, "lines"),
              doing' = [doing EXCEPT !.step = "lines"], owed' = [owed EXCEPT !["details"] = "nothing"]
       PROVE  ReviewInv'
  <2>1. Forward(server, server') /\ FlightInv' /\ ShownInv' /\ server' \in Snap /\ server'[doing.on][p] # "first"
    BY <1>8, <1>12
  <2>2. /\ doing' \in Jobs /\ doing'.kind = doing.kind /\ doing'.step = "lines" /\ doing'.saving /\ doing'.on = doing.on
        /\ doing'.boxes = doing.boxes /\ ~doing'.loose
    BY <1>2, <1>4, <1>5, <1>12 DEF Jobs, Steps
  <2>3. owed' \in [Part -> Value \cup {"nothing"}] /\ \A q \in Part : owed'[q] = IF q = "details" THEN "nothing" ELSE owed[q]
    BY <1>3, <1>12 DEF Typings, ReviewTypeOk, Part
  <2>4. BoxInv'
    <3>1. \A q \in Part : owed'[q] # "nothing" => owed'[q] = owed[q] /\ dirty' = dirty
      BY <1>12, <2>3
    <3>2. owed = Untyped => owed' = Untyped
      BY <1>12, <2>3 DEF Untyped
    <3> QED BY <1>2, <1>3, <2>1, <3>1, <3>2, BoxKept
  <2>5. JobInv'
    <3>1. page' # "left" /\ ~SaveOver'
      BY <1>2, <1>4, <2>2 DEF SaveOver, Saves
    <3>2. doing'.boxes["lines"] = "typed"
      BY <1>6, <1>12, <2>2 DEF Sends, Part
    <3>3. Typist(doing.on, doing.boxes)'
      BY <1>2, <1>6, <1>12, <2>2 DEF Typist
    <3> QED BY <1>12, <2>1, <2>2, <3>1, <3>2, <3>3 DEF JobInv
  <2>6. Typings'
    <3>1. dirty' \in BOOLEAN
      BY <1>3, <1>12 DEF Typings
    <3> QED BY <1>9, <1>12, <2>1, <2>2, <2>3, <3>1
  <2>7. OnlyTyped' /\ SavedIsTyped'
    BY <1>3, <1>7, <1>12 DEF SavedIsTyped
  <2> QED BY <2>1, <2>4, <2>5, <2>6, <2>7 DEF ReviewInv
<1>13. CASE p = "details" /\ SaveDetails
  <2>1. UNCHANGED astray => OnlyTyped'
    BY <1>3 DEF OnlyTyped
  <2> QED BY <1>2, <1>7, <1>10, <1>11, <1>12, <1>13, <2>1 DEF SaveDetails, GaveUp
<1>14. CASE p = "lines" /\ SaveLines
  <2>1. UNCHANGED astray => OnlyTyped'
    BY <1>3 DEF OnlyTyped
  <2> QED BY <1>2, <1>7, <1>10, <1>11, <1>14, <2>1 DEF SaveLines, GaveUp
<1> QED BY <1>1, <1>13, <1>14

LEMMA ActStep ==
  ASSUME ReviewInv, Act, UNCHANGED <<typings, presses>> PROVE ReviewInv'
<1>1. /\ doing.kind # "none" /\ doing.step = "act" /\ doing.kind \notin {"bulk", "claim"}
      /\ seen' = {r \in seen : server'[r].status = "reviewed"}
      /\ UNCHANGED <<page, view, flight, astray, missed>>
  BY DEF Act, Busy
<1>2. Typings /\ FlightInv /\ ShownInv /\ BoxInv /\ JobInv /\ server \in Snap
  BY DEF ReviewInv, Typings, ReviewTypeOk, Snap, Sheet
<1>3. doing \in Jobs /\ page \in Page /\ page # "left" /\ doing.on \in Receipt
  BY <1>1, <1>2, BusyIs DEF Jobs
<1>4. ASSUME Acted \/ UNCHANGED server PROVE Forward(server, server')
  <2>1. CASE UNCHANGED server
    BY <1>2, <2>1, ServerStays
  <2>2. CASE doing.kind = "check" /\ Open(doing.on) /\ server' = [server EXCEPT ![doing.on].status = "reviewed"]
    <3>1. server[doing.on].status # "gone" /\ "reviewed" \in Standing
      BY <2>2 DEF Open, Standing
    <3> QED BY <1>2, <1>3, <2>2, <3>1, CheckedIs
  <2>3. CASE doing.kind = "reread" /\ Open(doing.on) /\ server' = Rewritten(doing.on)
    <3>1. server[doing.on].status # "gone"
      BY <2>3 DEF Open
    <3> QED BY <1>2, <1>3, <2>3, <3>1, RewrittenIs
  <2>4. CASE doing.kind = "delete" /\ server' = [server EXCEPT ![doing.on].status = "gone"]
    <3>1. "gone" \in Standing
      BY DEF Standing
    <3> QED BY <1>2, <1>3, <2>4, <3>1, CheckedIs
  <2>5. Acted => \/ doing.kind = "check" /\ Open(doing.on) /\ server' = [server EXCEPT ![doing.on].status = "reviewed"]
                 \/ doing.kind = "reread" /\ Open(doing.on) /\ server' = Rewritten(doing.on)
                 \/ doing.kind = "delete" /\ server' = [server EXCEPT ![doing.on].status = "gone"]
                 \/ UNCHANGED server
    BY DEF Acted
  <2> QED BY <1>4, <2>1, <2>2, <2>3, <2>4, <2>5
<1>5. (Acted \/ UNCHANGED server) /\ (UNCHANGED troubles \/ Fails)
  BY DEF Act, ActRefused
<1>6. Forward(server, server') /\ server' \in Snap
  BY <1>4, <1>5 DEF Forward
<1>7. FlightInv'
  <2>1. NoOwn(flight)
    BY <1>1, <1>2, NothingAwaited, OkToo
  <2>2. seen' \subseteq seen
    BY <1>1
  <2> QED BY <1>1, <1>2, <1>6, <2>1, <2>2, FlightKept
<1>8. ShownInv'
  <2>1. \A q \in seen' : q \in seen /\ Reviewed(server', q)
    BY <1>1 DEF Reviewed
  <2> QED BY <1>1, <1>2, <1>6, <2>1, ShownKept
<1>9. owed' \in {owed, Untyped} /\ (doing' = NotDoing \/ (doing' = [doing EXCEPT !.step = "ask"]
        /\ (owed' = Untyped \/ ~GivesUp(doing.kind))))
  BY DEF Act, ActRefused, GivesUp
<1>10. doing' = NotDoing \/ (doing' \in Jobs /\ doing'.kind = doing.kind /\ doing'.step = "ask" /\ doing'.saving = doing.saving)
  BY <1>3, <1>9 DEF Jobs, Steps
<1>11. BoxInv' /\ sel' \in Receipt \cup {NoReceipt} /\ form' \in [Part -> Value] /\ base' \in [Part -> Value] /\ dirty' \in BOOLEAN
  <2>1. CASE doing.kind = "delete" /\ sel' = NoReceipt /\ form' = Blank /\ base' = Blank /\ dirty' = FALSE /\ owed' = Untyped
    BY <2>1, BoxBlank, UntypedIs
  <2>2. CASE UNCHANGED <<sel, form, base, dirty>>
    <3>1. \A p \in Part : owed'[p] # "nothing" => owed'[p] = owed[p] /\ dirty' = dirty
      BY <1>9, <2>2, UntypedIs
    <3>2. owed = Untyped => owed' = Untyped
      BY <1>9
    <3>3. BoxInv'
      BY <1>2, <1>6, <2>2, <3>1, <3>2, BoxKept
    <3> QED BY <1>2, <2>2, <3>3 DEF Typings, ReviewTypeOk
  <2> QED BY <2>1, <2>2 DEF Act, GivesUp
<1>12. JobInv'
  <2>1. SaveOver' => owed' = Untyped
    <3>1. SUFFICES ASSUME SaveOver', owed' # Untyped PROVE FALSE
      OBVIOUS
    <3>2. doing' # NotDoing /\ ~GivesUp(doing.kind) /\ owed' = owed
      BY <1>9, <3>1 DEF SaveOver, NotDoing
    <3>3. SaveOver
      BY <1>1, <1>10, <3>1, <3>2 DEF SaveOver, Saves
    <3> QED BY <1>2, <3>1, <3>2, <3>3 DEF JobInv
  <2>2. doing'.kind # "none" => doing'.step \notin {"details", "lines"} /\ page' # "left"
    BY <1>1, <1>3, <1>10 DEF NotDoing
  <2> QED BY <2>1, <2>2, JobOn
<1>13. Typings'
  <2>1. troubles' \in 0..MaxTroubles
    BY <1>2, <1>5, TroublesBound
  <2>2. owed' \in [Part -> Value \cup {"nothing"}]
    BY <1>2, <1>9, UntypedIs DEF Typings, ReviewTypeOk
  <2>3. seen' \subseteq Receipt
    BY <1>1, <1>2 DEF Typings, ReviewTypeOk
  <2> QED BY <1>1, <1>2, <1>6, <1>10, <1>11, <2>1, <2>2, <2>3 DEF Typings, ReviewTypeOk, Snap, Sheet
<1> QED BY <1>1, <1>7, <1>8, <1>11, <1>12, <1>13 DEF ReviewInv, OnlyTyped, SavedIsTyped

LEMMA OwnShownStep ==
  ASSUME ReviewInv, NEW i \in DOMAIN flight, OwnShown(i), UNCHANGED <<typings, presses>> PROVE ReviewInv'
<1>1. /\ flight[i].by = "own" /\ doing.kind # "none" /\ doing.step = "shown" /\ flight' = Landed(i)
      /\ UNCHANGED <<server, troubles, page, astray, missed>>
  BY DEF OwnShown, Busy, pageVars, ghosts
<1>2. Typings /\ FlightInv /\ ShownInv /\ BoxInv /\ JobInv /\ Forward(server, server') /\ server \in Snap
  BY <1>1, ServerStays DEF ReviewInv
<1>3. doing \in Jobs /\ page \in Page /\ page # "left" /\ doing.on \in Receipt /\ doing.todo \subseteq Receipt
  BY <1>1, <1>2, BusyIs DEF Jobs
<1>4. PICK v : v = Newest(i)
  OBVIOUS
<1>5. v \in Snap /\ flight[i].on \in Receipt /\ (\A r \in Receipt : Behind(v[r], server[r])) /\ (page = "case" => \A r \in seen : Reviewed(v, r))
  BY <1>2, <1>3, <1>4, NewestIs, OkToo
<1>6. NoOwn(flight')
  BY <1>1, <1>2, LandedLeaves, OkToo
<1>7. doing' = NotDoing \/ (page = "receipt" /\ doing' \in Jobs /\ doing'.step = "act" /\ ~doing'.saving)
  BY <1>3 DEF OwnShown, Jobs, Steps
<1>8. JobInv'
  <2>1. ~SaveOver'
    BY <1>1, <1>7 DEF SaveOver, NotDoing
  <2> QED BY <1>1, <1>3, <1>7, <2>1, JobOn DEF NotDoing
<1>9. (doing.saving \/ page = "case") => owed = Untyped
  BY <1>1, <1>2 DEF JobInv, SaveOver, Saves
<1>10. ASSUME BoxInv', ShownInv', view' \in Snap, seen' \subseteq Receipt, \A r \in seen' : r \in seen \/ Reviewed(server, r),
              owed' \in {owed, Untyped}, dirty' \in BOOLEAN, sel' \in Receipt \cup {NoReceipt}, form' \in [Part -> Value], base' \in [Part -> Value]
       PROVE  ReviewInv'
  <2>1. FlightInv'
    BY <1>1, <1>2, <1>6, <1>10, FlightGone, OkToo
  <2>2. Typings'
    BY <1>1, <1>2, <1>7, <1>10, UntypedIs DEF Typings, ReviewTypeOk
  <2> QED BY <1>1, <1>8, <1>10, <2>1, <2>2 DEF ReviewInv, OnlyTyped, SavedIsTyped
<1>11. CASE page = "receipt" /\ flight[i].on # sel
  <2>1. UNCHANGED <<view, sel, form, base, dirty, owed, seen>>
    BY <1>11 DEF OwnShown, pageVars, ghosts
  <2>2. BoxInv' /\ ShownInv'
    BY <1>1, <1>2, <2>1, BoxesStay, ShownStays
  <2> QED BY <1>2, <1>10, <2>1, <2>2 DEF Typings, ReviewTypeOk
<1>12. CASE page = "case"
  <2>1. PICK want \in Receipt \cup {NoReceipt} : Fill(v, want, FALSE)
    <3>1. \A r \in Receipt : NextAfter(v, r) \in Receipt
      <4>1. ASSUME NEW r \in Receipt PROVE NextAfter(v, r) \in Receipt
        <5>1. ToCheck(v) \ {r} # {} => (CHOOSE q \in ToCheck(v) \ {r} : TRUE) \in ToCheck(v) \ {r}
          OBVIOUS
        <5> QED BY <5>1 DEF NextAfter, ToCheck
      <4> QED BY <4>1
    <3>2. sel \in Receipt \cup {NoReceipt}
      BY <1>2 DEF Typings, ReviewTypeOk
    <3>3. StillToCheck(v) \in Receipt \cup {NoReceipt}
      BY <3>2, ShowsOne DEF StillToCheck
    <3> QED BY <1>3, <1>4, <1>12, <3>1, <3>2, <3>3 DEF OwnShown
  <2>2. /\ BoxInv' /\ view' = v /\ owed' \in {owed, Untyped} /\ dirty' \in BOOLEAN
        /\ sel' \in Receipt \cup {NoReceipt} /\ form' \in [Part -> Value] /\ base' \in [Part -> Value]
        /\ seen' = ShownChecked(view') \cup (seen \cap {r \in Receipt : server[r].status = "reviewed"})
    BY <1>1, <1>2, <1>5, <1>9, <1>12, <2>1, FillBoxes
  <2>3. ShownInv' /\ seen' \subseteq Receipt /\ \A r \in seen' : r \in seen \/ Reviewed(server, r)
    BY <1>1, <1>2, <1>5, <2>2, ShownAnew, OkToo
  <2> QED BY <1>5, <1>10, <2>2, <2>3
<1>13. CASE page = "receipt" /\ flight[i].on = sel
  <2>1. view' = v /\ LoadFrom(v[sel], FALSE) /\ owed' = (IF doing.saving THEN owed ELSE Untyped) /\ UNCHANGED <<sel, seen>> /\ sel \in Receipt
    <3>1. page # "case" /\ ~(flight[i].on # sel)
      BY <1>13
    <3> QED BY <1>4, <1>5, <1>13, <3>1 DEF OwnShown
  <2>2. v[sel] \in Sheet /\ Behind(v[sel], server'[sel']) /\ Boxes(v[sel]) \in [Part -> Value]
    <3>1. v[sel] \in Sheet
      BY <1>5, <2>1 DEF Snap
    <3> QED BY <1>1, <1>5, <2>1, <3>1, SheetIs DEF Part
  <2>3. form' = Boxes(v[sel]) /\ base' = Boxes(v[sel]) /\ dirty' = FALSE
    BY <2>1 DEF LoadFrom
  <2>4. owed' = Untyped
    BY <1>9, <2>1
  <2>5. BoxInv'
    <3>1. sel' \in Receipt
      BY <2>1
    <3> QED BY <2>2, <2>3, <2>4, <3>1, BoxLoaded
  <2>6. ShownInv'
    BY <1>1, <1>2, <1>5, <1>13, <2>1 DEF ShownInv, ShownOk, CheckedStaysShown
  <2> QED BY <1>2, <1>5, <1>10, <2>1, <2>2, <2>3, <2>4, <2>5, <2>6 DEF Typings, ReviewTypeOk
<1> QED BY <1>3, <1>11, <1>12, <1>13 DEF Page

LEMMA ReviewBegins == ASSUME ReviewInit PROVE ReviewInv
<1>1. PICK begins \in {"needed", "reviewed", "reading"} :
        server = [r \in Receipt |-> [status |-> IF r = sel THEN begins ELSE IF page = "case" THEN begins ELSE "needed",
                                     details |-> "first", lines |-> "first"]]
  BY DEF ReviewInit
<1>2. /\ page \in Page /\ view = server /\ form = Blank /\ base = Blank /\ dirty = FALSE
      /\ doing = NotDoing /\ flight = <<>> /\ owed = Untyped /\ seen = {} /\ astray = FALSE /\ missed = FALSE
      /\ typings = 0 /\ presses = 0 /\ troubles = 0 /\ sel = CHOOSE r \in Receipt : TRUE
  BY DEF ReviewInit
<1>3. sel \in Receipt
  BY <1>2, CaseReviewAssumption
<1>4. server \in Snap
  BY <1>1 DEF Snap, Sheet, Standing, Value
<1>5. Typings
  <2>1. /\ page \in Page \cup {"left"} /\ sel \in Receipt \cup {NoReceipt} /\ dirty \in BOOLEAN /\ view \in Snap
        /\ server \in [Receipt -> [status : Standing, details : Value, lines : Value]]
        /\ form \in [Part -> Value] /\ base \in [Part -> Value]
    BY <1>2, <1>3, <1>4, UntypedIs DEF Snap, Sheet
  <2>2. owed \in [Part -> Value \cup {"nothing"}] /\ seen \subseteq Receipt /\ doing = NotDoing
    BY <1>2, UntypedIs
  <2>3. typings \in 0..MaxTyped /\ presses \in 0..MaxJobs /\ troubles \in 0..MaxTroubles
    BY <1>2, CaseReviewAssumption
  <2> QED BY <2>1, <2>2, <2>3 DEF Typings, ReviewTypeOk
<1>6. FlightInv
  BY <1>2 DEF FlightInv, FlightOk, Fits, Snapped, Older, Single, StaleFirst, OwnCovers, SeenIn, Awaited, NoOwn
<1>7. ShownInv
  BY <1>2, BehindItself DEF ShownInv, ShownOk, CheckedStaysShown
<1>8. BoxInv
  BY <1>2, UntypedIs DEF BoxInv, TypedKept
<1>9. JobInv
  BY <1>2 DEF JobInv, Saves, SaveOver, NotDoing, Page
<1> QED BY <1>2, <1>5, <1>6, <1>7, <1>8, <1>9 DEF ReviewInv, OnlyTyped, SavedIsTyped

LEMMA ReviewGoesOn == ASSUME ReviewInv, ~LooseSave, [ReviewNext]_reviewVars PROVE ReviewInv'
<1>1. CASE UNCHANGED reviewVars
  BY <1>1 DEF ReviewInv, Typings, ReviewTypeOk, FlightInv, FlightOk, ShownInv, ShownOk, CheckedStaysShown, BoxInv, TypedKept, JobInv,
              Saves, SaveOver, Typist, OnlyTyped, SavedIsTyped, reviewVars, pageVars, ghosts, bounds
<1>2. ASSUME NEW ps \in SUBSET Part, Type(ps) PROVE ReviewInv'
  BY <1>2, TypingStep
<1>3. ASSUME NEW kind \in AnyKind, Start(kind) PROVE ReviewInv'
  BY <1>3, StartStep
<1>4. CASE Others /\ UNCHANGED <<typings, presses>>
  <2>1. ASSUME NEW r \in Receipt, Move(r) \/ OpenReceipt(r) \/ Elsewhere(r) \/ AReadLands(r) PROVE ReviewInv'
    BY <1>4, <2>1, MoveStep, OpenStep, ElsewhereStep, ReadLandsStep
  <2>2. ASSUME NEW i \in DOMAIN flight, PollShown(i) \/ OwnLost(i) \/ OwnShown(i) \/ BulkListed(i) PROVE ReviewInv'
    BY <1>4, <2>2, PollShownStep, OwnLostStep, OwnShownStep, BulkListedStep
  <2>3. CASE Poll \/ SaveDetails \/ SaveLines \/ Act \/ ClaimCase \/ AskAgain \/ BulkOne
    BY <1>4, <2>3, PollStep, SaveStep, ActStep, ClaimStep, AskAgainStep, BulkOneStep
  <2> QED BY <1>4, <2>1, <2>2, <2>3 DEF Others
<1> QED BY <1>1, <1>2, <1>3, <1>4 DEF ReviewNext

\* As long as no save is under way for boxes that are no longer the person's, what is
\* typed stays until it is saved or given up, a save writes nothing nobody typed and
\* leaves nothing out, and what is shown as checked is not put back by an older answer
\* (useReceiptForm.js save and loadFrom, CaseReview.jsx load and LOCKING).
THEOREM ReviewStaysHeld == ReviewSpec /\ []~LooseSave => []ReviewHolds
<1>1. ReviewInit => ReviewInv
  BY ReviewBegins
<1>2. ReviewInv /\ ~LooseSave /\ [ReviewNext]_reviewVars => ReviewInv'
  BY ReviewGoesOn
<1>3. ReviewInv => ReviewHolds
  BY DEF ReviewInv, ReviewHolds, Typings, ShownInv, ShownOk, BoxInv
<1> QED BY <1>1, <1>2, <1>3, PTL DEF ReviewSpec

-----------------------------------------------------------------------------
(* What is shown as checked, whatever a save under way does.                 *)

SeenInv == Typings /\ FlightOk /\ ShownOk /\ (page = "left" => doing.kind = "none")

LEMMA SeenKept ==
  ASSUME SeenInv, UNCHANGED <<view, flight>>, page' \in {page, "left"}, NoOwn(flight) \/ NoneChecked(server, server'),
         NoOwn(flight) \/ (doing'.kind = doing.kind /\ doing'.step = doing.step),
         \A r \in seen' : r \in seen /\ Reviewed(server', r)
  PROVE  FlightOk' /\ ShownOk'
BY FlightKeptOk, ShownKeptOk DEF SeenInv

\* Nothing of what is shown, or on the server, changes.
LEMMA SeenStays ==
  ASSUME SeenInv, UNCHANGED <<view, flight, server, seen, page>>, NoOwn(flight) \/ (doing'.kind = doing.kind /\ doing'.step = doing.step)
  PROVE  FlightOk' /\ ShownOk'
<1>1. \A r \in seen' : r \in seen /\ Reviewed(server', r)
  BY DEF SeenInv, ShownOk
<1>2. NoneChecked(server, server')
  BY DEF NoneChecked
<1> QED BY <1>1, <1>2, SeenKept

LEMMA BusySeen == ASSUME SeenInv PROVE page \in Page \cup {"left"} /\ (doing.kind # "none" => doing \in Jobs /\ page \in Page /\ page # "left")
BY DEF SeenInv, Typings, NotDoing, ReviewTypeOk

LEMMA LoadTypes ==
  ASSUME Typings, NEW e \in Sheet, NEW keep \in BOOLEAN, LoadFrom(e, keep)
  PROVE  form' \in [Part -> Value] /\ base' \in [Part -> Value] /\ dirty' \in BOOLEAN
<1>1. Boxes(e) \in [Part -> Value]
  BY SheetIs DEF Part
<1> QED BY <1>1 DEF LoadFrom, Typings, ReviewTypeOk

LEMMA FillTypes ==
  ASSUME Typings, NEW v \in Snap, NEW want \in Receipt \cup {NoReceipt}, NEW keep \in BOOLEAN, Fill(v, want, keep)
  PROVE  /\ view' = v /\ owed' \in {owed, Untyped} /\ dirty' \in BOOLEAN
         /\ sel' \in Receipt \cup {NoReceipt} /\ form' \in [Part -> Value] /\ base' \in [Part -> Value]
         /\ seen' = ShownChecked(view') \cup (seen \cap {r \in Receipt : server[r].status = "reviewed"})
<1>1. /\ view' = v /\ owed' = (IF sel' = sel THEN owed ELSE Untyped)
      /\ sel' = (IF want # NoReceipt /\ v[want].status # "gone" THEN want ELSE FirstToShow(v))
      /\ seen' = ShownChecked(v) \cup (seen \cap {r \in Receipt : server[r].status = "reviewed"})
  BY DEF Fill
<1>2. sel' \in Receipt \cup {NoReceipt}
  BY <1>1, ShowsOne
<1>3. CASE sel' = NoReceipt
  BY <1>1, <1>2, <1>3, UntypedIs DEF Fill
<1>4. CASE sel' # NoReceipt
  <2>1. v[sel'] \in Sheet
    BY <1>2, <1>4 DEF Snap
  <2>2. PICK k \in BOOLEAN : k = (keep /\ sel' = sel)
    OBVIOUS
  <2>3. LoadFrom(v[sel'], k)
    BY <1>4, <2>2 DEF Fill
  <2>4. form' \in [Part -> Value] /\ base' \in [Part -> Value] /\ dirty' \in BOOLEAN
    BY <2>1, <2>3, LoadTypes
  <2> QED BY <1>1, <1>2, <2>4
<1> QED BY <1>3, <1>4

LEMMA TypingSeen == ASSUME SeenInv, NEW ps \in SUBSET Part, Type(ps) PROVE SeenInv'
<1>1. PICK v \in {[p \in Part |-> "typed"], base} :
        /\ form' = [p \in Part |-> IF p \in ps THEN v[p] ELSE form[p]]
        /\ owed' = [p \in Part |-> IF p \in ps THEN v[p] ELSE owed[p]]
  BY DEF Type
<1>2. dirty' = TRUE /\ UNCHANGED <<page, view, sel, base, server, doing, flight, seen, astray, missed, presses, troubles>>
  BY DEF Type
<1>3. v \in [Part -> Value]
  BY <1>1 DEF Value, SeenInv, Typings, ReviewTypeOk
<1>4. form' \in [Part -> Value] /\ owed' \in [Part -> Value \cup {"nothing"}]
  BY <1>1, <1>3 DEF SeenInv, Typings, ReviewTypeOk
<1>5. Typings'
  BY <1>2, <1>4, CaseReviewAssumption DEF SeenInv, Typings, ReviewTypeOk, Type
<1>6. FlightOk' /\ ShownOk'
  BY <1>2, SeenStays
<1> QED BY <1>2, <1>5, <1>6 DEF SeenInv

LEMMA MoveSeen ==
  ASSUME SeenInv, NEW r \in Receipt, Move(r) \/ OpenReceipt(r), UNCHANGED <<typings, presses>> PROVE SeenInv'
<1>1. /\ sel' = r /\ owed' = Untyped /\ doing' = MovedOn /\ UNCHANGED <<page, server, flight, seen, troubles>> /\ page # "left"
  BY DEF Move, OpenReceipt, Show
<1>2. Typings /\ server \in Snap /\ server[r] \in Sheet /\ view[r] \in Sheet
  BY DEF SeenInv, Typings, ReviewTypeOk, Snap, Sheet
<1>3. doing' \in Jobs \cup {NotDoing} /\ doing'.kind = doing.kind /\ doing'.step = doing.step
  BY <1>1, <1>2, MovedOnIs
<1>4. form' \in [Part -> Value] /\ base' \in [Part -> Value] /\ dirty' \in BOOLEAN
  BY <1>2, LoadTypes DEF Move, Show, OpenReceipt
<1>5. ASSUME view' \in Snap PROVE Typings'
  BY <1>1, <1>2, <1>3, <1>4, <1>5, UntypedIs DEF Typings, ReviewTypeOk
<1>6. CASE Move(r)
  <2>1. UNCHANGED view
    BY <1>6 DEF Move
  <2>2. FlightOk' /\ ShownOk'
    BY <1>1, <1>3, <2>1, SeenStays
  <2> QED BY <1>1, <1>2, <1>5, <2>1, <2>2 DEF SeenInv, Typings
<1>7. CASE OpenReceipt(r)
  <2>1. page = "receipt" /\ view' = [view EXCEPT ![r] = server[r]]
    BY <1>7 DEF OpenReceipt
  <2>2. view' \in Snap
    BY <1>2, <2>1 DEF Snap, Typings
  <2>3. seen' \subseteq seen /\ NoneChecked(server, server')
    BY <1>1 DEF NoneChecked
  <2>4. FlightOk'
    BY <1>1, <1>3, <2>3, FlightKeptOk DEF SeenInv
  <2>5. ShownOk'
    BY <1>1, <2>1 DEF SeenInv, ShownOk, CheckedStaysShown
  <2> QED BY <1>1, <1>5, <2>2, <2>4, <2>5 DEF SeenInv
<1> QED BY <1>6, <1>7

LEMMA PollSeen == ASSUME SeenInv, Poll, UNCHANGED <<typings, presses>> PROVE SeenInv'
<1>1. /\ page # "left" /\ sel # NoReceipt /\ AskFor("poll", sel) /\ \A i \in DOMAIN flight : flight[i].by # "poll"
      /\ UNCHANGED <<page, view, sel, form, base, dirty, server, doing, owed, seen, astray, missed, troubles>>
  BY DEF Poll, pageVars, ghosts
<1>2. Typings'
  BY <1>1 DEF SeenInv, Typings, ReviewTypeOk
<1>3. sel \in Receipt
  BY <1>1 DEF SeenInv, Typings, ReviewTypeOk
<1>4. FlightOk'
  BY <1>1, <1>3, FlightMore DEF SeenInv
<1>5. ShownOk'
  BY <1>1 DEF SeenInv, ShownOk, CheckedStaysShown
<1> QED BY <1>1, <1>2, <1>4, <1>5 DEF SeenInv

LEMMA AskAgainSeen == ASSUME SeenInv, AskAgain, UNCHANGED <<typings, presses>> PROVE SeenInv'
<1>1. /\ doing.kind # "none" /\ (doing.step = "ask" \/ doing.step = "act")
      /\ doing' = [doing EXCEPT !.step = IF doing.step = "act" THEN "list" ELSE "shown"]
      /\ AskFor("own", doing.on)
      /\ UNCHANGED <<page, view, sel, form, base, dirty, server, owed, seen, troubles>>
  BY DEF AskAgain, pageVars, ghosts, Busy
<1>2. doing \in Jobs /\ page # "left" /\ doing.on \in Receipt
  BY <1>1, BusySeen DEF Jobs
<1>3. doing' \in Jobs /\ doing'.kind = doing.kind /\ doing'.step \in {"list", "shown"}
  BY <1>1, <1>2 DEF Jobs, Steps
<1>4. Typings'
  BY <1>1, <1>3 DEF SeenInv, Typings, ReviewTypeOk
<1>5. FlightOk'
  <2>1. \A i \in DOMAIN flight : flight[i].by # "own"
    BY <1>1, NothingAwaited DEF NoOwn, SeenInv
  <2>2. doing'.kind # "none"
    BY <1>1, <1>3
  <2> QED BY <1>1, <1>2, <1>3, <2>1, <2>2, FlightMore DEF SeenInv
<1>6. ShownOk'
  BY <1>1 DEF SeenInv, ShownOk, CheckedStaysShown
<1> QED BY <1>1, <1>2, <1>4, <1>5, <1>6 DEF SeenInv

LEMMA OwnLostSeen == ASSUME SeenInv, NEW i \in DOMAIN flight, OwnLost(i), UNCHANGED <<typings, presses>> PROVE SeenInv'
<1>1. /\ flight[i].by = "own" /\ Fails /\ flight' = ListOps!RemoveAt(flight, i) /\ doing' = NotDoing
      /\ UNCHANGED <<page, view, sel, form, base, dirty, server, owed, seen>>
  BY DEF OwnLost, pageVars, ghosts
<1>2. Typings'
  BY <1>1, TroublesBound DEF SeenInv, Typings, ReviewTypeOk
<1>3. FlightOk'
  BY <1>1, FlightLost DEF SeenInv
<1>4. ShownOk'
  BY <1>1 DEF SeenInv, ShownOk, CheckedStaysShown
<1> QED BY <1>1, <1>2, <1>3, <1>4 DEF SeenInv, NotDoing

\* A GET that is in.
LEMMA LandedSeen ==
  ASSUME SeenInv, NEW i \in DOMAIN flight, PollShown(i) \/ OwnShown(i) \/ BulkListed(i), UNCHANGED <<typings, presses>> PROVE SeenInv'
<1>1. flight' = Landed(i) /\ UNCHANGED <<server, troubles, page>>
  BY DEF PollShown, OwnShown, BulkListed, pageVars
<1>2. Typings /\ FlightOk /\ ShownOk /\ sel \in Receipt \cup {NoReceipt} /\ owed \in [Part -> Value \cup {"nothing"}] /\ seen \subseteq Receipt
  BY DEF SeenInv, Typings, ReviewTypeOk
<1>3. page # "left" /\ page \in Page
  BY BusySeen DEF PollShown, OwnShown, BulkListed, Busy
<1>4. PICK v : v = Newest(i)
  OBVIOUS
<1>5. v \in Snap /\ flight[i].on \in Receipt /\ (page = "case" => \A r \in seen : Reviewed(v, r))
  BY <1>2, <1>3, <1>4, NewestIs
<1>6. doing' \in Jobs \cup {NotDoing} /\ (NoOwn(flight') \/ doing' = doing)
  <2>1. CASE PollShown(i)
    BY <1>2, <2>1 DEF PollShown, Typings
  <2>2. CASE OwnShown(i)
    <3>1. doing \in Jobs /\ flight[i].by = "own"
      BY <2>2, BusySeen DEF OwnShown, Busy
    <3>2. NoOwn(flight')
      BY <1>1, <1>2, <3>1, LandedLeaves
    <3> QED BY <2>2, <3>1, <3>2 DEF OwnShown, Jobs, Steps
  <2>3. CASE BulkListed(i)
    <3>1. doing \in Jobs /\ flight[i].by = "own"
      BY <2>3, BusySeen DEF BulkListed, Busy
    <3>2. NoOwn(flight')
      BY <1>1, <1>2, <3>1, LandedLeaves
    <3>3. PICK unflagged \in SUBSET ToCheck(view') : doing' = [doing EXCEPT !.step = "each", !.todo = unflagged]
      BY <2>3 DEF BulkListed
    <3>4. unflagged \subseteq Receipt
      BY <3>3 DEF ToCheck
    <3> QED BY <3>1, <3>2, <3>3, <3>4 DEF Jobs, Steps
  <2> QED BY <2>1, <2>2, <2>3
<1>7. ASSUME view' \in Snap, ShownOk', seen' \subseteq Receipt, \A r \in seen' : r \in seen \/ Reviewed(server, r),
             owed' \in {owed, Untyped}, dirty' \in BOOLEAN, sel' \in Receipt \cup {NoReceipt}, form' \in [Part -> Value], base' \in [Part -> Value]
      PROVE  SeenInv'
  <2>1. FlightOk'
    BY <1>1, <1>2, <1>6, <1>7, FlightGone
  <2>2. Typings'
    BY <1>1, <1>2, <1>6, <1>7, UntypedIs DEF Typings, ReviewTypeOk
  <2> QED BY <1>1, <1>3, <1>7, <2>1, <2>2 DEF SeenInv
<1>8. ASSUME NEW want \in Receipt \cup {NoReceipt}, NEW keep \in BOOLEAN, Fill(v, want, keep) PROVE SeenInv'
  <2>1. /\ view' = v /\ owed' \in {owed, Untyped} /\ dirty' \in BOOLEAN
        /\ sel' \in Receipt \cup {NoReceipt} /\ form' \in [Part -> Value] /\ base' \in [Part -> Value]
        /\ seen' = ShownChecked(view') \cup (seen \cap {r \in Receipt : server[r].status = "reviewed"})
    BY <1>2, <1>5, <1>8, FillTypes
  <2>2. ShownOk' /\ seen' \subseteq Receipt /\ \A r \in seen' : r \in seen \/ Reviewed(server, r)
    BY <1>1, <1>2, <1>5, <2>1, ShownAnew
  <2> QED BY <1>5, <1>7, <2>1, <2>2
<1>9. ASSUME page = "receipt", NEW keep \in BOOLEAN, view' = v, LoadFrom(v[sel], keep), sel \in Receipt, UNCHANGED <<sel, seen>>,
             owed' \in {owed, Untyped}
      PROVE  SeenInv'
  <2>1. v[sel] \in Sheet
    BY <1>5, <1>9 DEF Snap
  <2>2. form' \in [Part -> Value] /\ base' \in [Part -> Value] /\ dirty' \in BOOLEAN
    BY <1>2, <1>9, <2>1, LoadTypes
  <2>3. ShownOk'
    BY <1>1, <1>2, <1>9 DEF ShownOk, CheckedStaysShown
  <2> QED BY <1>2, <1>5, <1>7, <1>9, <2>2, <2>3
<1>10. ASSUME UNCHANGED <<view, sel, form, base, dirty, owed, seen>> PROVE SeenInv'
  <2>1. ShownOk'
    BY <1>1, <1>2, <1>10 DEF ShownOk, CheckedStaysShown
  <2> QED BY <1>2, <1>7, <1>10, <2>1 DEF Typings, ReviewTypeOk
<1>11. CASE BulkListed(i)
  <2>1. /\ view' = v /\ UNCHANGED <<sel, form, base, dirty, owed>>
        /\ seen' = ShownChecked(view') \cup (seen \cap {r \in Receipt : server[r].status = "reviewed"})
    BY <1>4, <1>11 DEF BulkListed
  <2>2. ShownOk' /\ seen' \subseteq Receipt /\ \A r \in seen' : r \in seen \/ Reviewed(server, r)
    BY <1>1, <1>2, <1>5, <2>1, ShownAnew
  <2> QED BY <1>2, <1>5, <1>7, <2>1, <2>2 DEF Typings, ReviewTypeOk
<1>12. CASE PollShown(i) /\ page = "case"
  <2>1. Fill(v, sel, TRUE)
    BY <1>4, <1>12 DEF PollShown
  <2> QED BY <1>2, <1>8, <2>1
<1>13. CASE OwnShown(i) /\ page = "case"
  <2>1. PICK want \in Receipt \cup {NoReceipt} : Fill(v, want, FALSE)
    <3>1. \A r \in Receipt : NextAfter(v, r) \in Receipt
      <4>1. ASSUME NEW r \in Receipt PROVE NextAfter(v, r) \in Receipt
        <5>1. ToCheck(v) \ {r} # {} => (CHOOSE q \in ToCheck(v) \ {r} : TRUE) \in ToCheck(v) \ {r}
          OBVIOUS
        <5> QED BY <5>1 DEF NextAfter, ToCheck
      <4> QED BY <4>1
    <3>2. StillToCheck(v) \in Receipt \cup {NoReceipt}
      BY <1>2, ShowsOne DEF StillToCheck
    <3>3. doing.on \in Receipt /\ doing.todo \subseteq Receipt
      BY <1>13, BusySeen DEF OwnShown, Busy, Jobs
    <3> QED BY <1>2, <1>4, <1>13, <3>1, <3>2, <3>3 DEF OwnShown
  <2> QED BY <1>8, <2>1
<1>14. CASE (PollShown(i) \/ OwnShown(i)) /\ page = "receipt" /\ flight[i].on # sel
  <2>1. UNCHANGED <<view, sel, form, base, dirty, owed, seen>>
    BY <1>14 DEF PollShown, OwnShown, pageVars, ghosts
  <2> QED BY <1>10, <2>1
<1>15. CASE (PollShown(i) \/ OwnShown(i)) /\ page = "receipt" /\ flight[i].on = sel
  <2>1. page # "case" /\ ~(flight[i].on # sel) /\ sel \in Receipt
    BY <1>5, <1>15
  <2>2. view' = v /\ UNCHANGED <<sel, seen>> /\ owed' \in {owed, Untyped} /\ \E keep \in BOOLEAN : LoadFrom(v[sel], keep)
    BY <1>4, <1>15, <2>1 DEF PollShown, OwnShown
  <2> QED BY <1>9, <1>15, <2>1, <2>2
<1> QED BY <1>3, <1>11, <1>12, <1>13, <1>14, <1>15 DEF Page

\* What changes on the server, but for what is checked.
LEMMA ServerTypes ==
  ASSUME Typings, server' \in Snap, UNCHANGED <<page, view, sel, form, base>>, dirty' \in BOOLEAN, owed' \in [Part -> Value \cup {"nothing"}],
         doing' \in Jobs \cup {NotDoing}, seen' \subseteq seen, UNCHANGED <<typings, presses>>, UNCHANGED troubles \/ Fails
  PROVE  Typings'
BY TroublesBound DEF Typings, ReviewTypeOk, Snap, Sheet

LEMMA SettleTypes ==
  ASSUME Typings, NEW j \in Jobs, NEW srv, Settle(j, srv)
  PROVE  doing' \in Jobs /\ owed' \in [Part -> Value \cup {"nothing"}] /\ dirty' = FALSE
<1>1. dirty' = FALSE /\ owed' \in {owed, Untyped} /\ doing' = [j EXCEPT !.step = NextStep(j.kind), !.boxes = Blank, !.owed = Untyped, !.loose = FALSE]
  BY DEF Settle
<1>2. doing' \in Jobs
  BY <1>1, UntypedIs DEF Jobs, Steps, NextStep
<1> QED BY <1>1, <1>2, UntypedIs DEF Typings, ReviewTypeOk

LEMMA StartSeen == ASSUME SeenInv, NEW kind \in AnyKind, Start(kind) PROVE SeenInv'
<1>0. PICK saves : saves = (~GivesUp(kind) /\ (kind \in {"bulk", "claim"} => dirty))
  OBVIOUS
<1>1. PICK j : j = [kind |-> kind, on |-> sel, boxes |-> form, owed |-> owed, loose |-> ~dirty, saving |-> saves, todo |-> {}, step |-> "act"]
  OBVIOUS
<1>2. /\ page # "left" /\ doing.kind = "none" /\ sel # NoReceipt /\ presses < MaxJobs /\ presses' = presses + 1
      /\ UNCHANGED <<page, view, sel, form, base, server, flight, seen, astray, typings, troubles>>
      /\ \/ doing' = [j EXCEPT !.boxes = Blank, !.owed = Untyped, !.loose = FALSE] /\ UNCHANGED <<dirty, owed>>
         \/ doing' = [j EXCEPT !.step = "details"] /\ UNCHANGED <<dirty, owed>>
         \/ doing' = [j EXCEPT !.step = "lines"] /\ UNCHANGED <<dirty, owed>>
         \/ Settle(j, server)
  BY <1>0, <1>1 DEF Start
<1>3. j \in Jobs
  <2>1. saves \in BOOLEAN /\ (~dirty) \in BOOLEAN
    BY <1>0
  <2>2. sel \in Receipt /\ form \in [Part -> Value] /\ owed \in [Part -> Value \cup {"nothing"}]
    BY <1>2 DEF SeenInv, Typings, ReviewTypeOk
  <2> QED BY <1>1, <2>1, <2>2 DEF Jobs, Steps
<1>4. doing' \in Jobs /\ owed' \in [Part -> Value \cup {"nothing"}] /\ dirty' \in BOOLEAN
  <2>1. Typings
    BY DEF SeenInv
  <2>2. CASE Settle(j, server)
    BY <1>3, <2>1, <2>2, SettleTypes
  <2>3. CASE UNCHANGED <<dirty, owed>> /\ ~Settle(j, server)
    <3>1. CASE doing' = [j EXCEPT !.boxes = Blank, !.owed = Untyped, !.loose = FALSE]
      BY <1>3, <2>1, <2>3, <3>1, UntypedIs DEF Jobs, Typings, ReviewTypeOk
    <3>2. CASE doing' = [j EXCEPT !.step = "details"] \/ doing' = [j EXCEPT !.step = "lines"]
      BY <1>3, <2>1, <2>3, <3>2 DEF Jobs, Steps, Typings, ReviewTypeOk
    <3> QED BY <1>2, <2>3, <3>1, <3>2
  <2> QED BY <1>2, <2>2, <2>3
<1>5. presses' \in 0..MaxJobs
  BY <1>2, CaseReviewAssumption DEF SeenInv, Typings, ReviewTypeOk
<1>6. Typings'
  BY <1>2, <1>4, <1>5 DEF SeenInv, Typings, ReviewTypeOk
<1>7. NoOwn(flight)
  BY <1>2, NothingAwaited DEF SeenInv
<1>8. FlightOk' /\ ShownOk'
  BY <1>2, <1>7, SeenStays
<1> QED BY <1>2, <1>6, <1>8 DEF SeenInv

LEMMA SaveSeen == ASSUME SeenInv, SaveDetails \/ SaveLines, UNCHANGED <<typings, presses>> PROVE SeenInv'
<1>1. PICK p \in Part : Busy(p) /\ ((p = "details" /\ SaveDetails) \/ (p = "lines" /\ SaveLines))
  BY DEF SaveDetails, SaveLines, Part
<1>2. /\ doing.kind # "none" /\ doing.step = p
      /\ UNCHANGED <<page, view, sel, form, base, flight, seen>> /\ (UNCHANGED troubles \/ Fails) /\ (UNCHANGED server \/ Written(p))
      /\ \/ doing' = NotDoing /\ UNCHANGED <<dirty, owed>>
         \/ doing' = [doing EXCEPT !.step = "lines"] /\ owed' \in {owed, [owed EXCEPT !["details"] = "nothing"]} /\ UNCHANGED dirty
         \/ Settle(doing, server')
  BY <1>1 DEF Busy, SaveDetails, SaveLines, GaveUp
<1>3. Typings /\ server \in Snap /\ doing \in Jobs /\ page # "left"
  BY <1>2, BusySeen DEF SeenInv, Typings, ReviewTypeOk, Snap, Sheet
<1>4. server' \in Snap /\ \A q \in Receipt : server'[q].status = server[q].status
  <2>1. CASE UNCHANGED server
    BY <1>3, <2>1
  <2>2. CASE Written(p)
    <3>1. PICK on \in Receipt, h \in Sheet, x \in Value : on = doing.on /\ h = server[on] /\ x = doing.boxes[p]
      BY <1>3 DEF Jobs, Snap
    <3>2. PICK e : e = [h EXCEPT ![p] = x]
      OBVIOUS
    <3>3. e \in Sheet /\ e.status = h.status
      BY <3>1, <3>2, SheetPut
    <3>4. server' = [server EXCEPT ![on] = e]
      BY <2>2, <3>1, <3>2 DEF Written
    <3> QED BY <1>3, <3>1, <3>3, <3>4 DEF Snap
  <2> QED BY <1>2, <2>1, <2>2
<1>5. doing' \in Jobs \cup {NotDoing} /\ owed' \in [Part -> Value \cup {"nothing"}] /\ dirty' \in BOOLEAN
  <2>1. CASE Settle(doing, server')
    BY <1>3, <2>1, SettleTypes
  <2>2. CASE ~Settle(doing, server')
    BY <1>2, <1>3, <2>2 DEF Jobs, Steps, Typings, ReviewTypeOk, Part
  <2> QED BY <2>1, <2>2
<1>6. Typings'
  BY <1>2, <1>3, <1>4, <1>5, ServerTypes
<1>7. FlightOk' /\ ShownOk'
  <2>1. \A r \in seen' : r \in seen /\ Reviewed(server', r)
    BY <1>2, <1>3, <1>4 DEF SeenInv, ShownOk, Reviewed, Typings, ReviewTypeOk
  <2>2. NoOwn(flight)
    BY <1>2, NothingAwaited DEF SeenInv, Part
  <2> QED BY <1>2, <2>1, <2>2, SeenKept
<1> QED BY <1>2, <1>3, <1>6, <1>7 DEF SeenInv

LEMMA ActedIs == ASSUME server \in Snap, doing \in Jobs, Acted PROVE server' \in Snap
<1>1. doing.on \in Receipt /\ server[doing.on] \in Sheet /\ {"reviewed", "needed", "gone"} \subseteq Standing /\ "else" \in Value
  BY DEF Jobs, Snap, Standing, Value
<1>2. CASE UNCHANGED server
  BY <1>2
<1>3. ASSUME NEW s \in Standing, server' = [server EXCEPT ![doing.on].status = s] PROVE server' \in Snap
  BY <1>1, <1>3, SheetTold DEF Snap
<1>4. CASE server' = Rewritten(doing.on)
  BY <1>1, <1>4 DEF Rewritten, Snap, Sheet
<1> QED BY <1>1, <1>2, <1>3, <1>4 DEF Acted

LEMMA ActSeen == ASSUME SeenInv, Act, UNCHANGED <<typings, presses>> PROVE SeenInv'
<1>1. /\ doing.kind # "none" /\ doing.step = "act" /\ seen' = {r \in seen : server'[r].status = "reviewed"}
      /\ UNCHANGED <<page, view, flight>> /\ (Acted \/ UNCHANGED server) /\ (UNCHANGED troubles \/ Fails)
      /\ owed' \in {owed, Untyped} /\ (doing' = NotDoing \/ doing' = [doing EXCEPT !.step = "ask"])
      /\ \/ sel' = NoReceipt /\ form' = Blank /\ base' = Blank /\ dirty' = FALSE
         \/ UNCHANGED <<sel, form, base, dirty>>
  BY DEF Act, ActRefused, Busy
<1>2. Typings /\ server \in Snap /\ doing \in Jobs /\ page # "left"
  BY <1>1, BusySeen DEF SeenInv, Typings, ReviewTypeOk, Snap, Sheet
<1>3. server' \in Snap /\ doing' \in Jobs \cup {NotDoing}
  BY <1>1, <1>2, ActedIs DEF Jobs, Steps
<1>4. Typings'
  BY <1>1, <1>2, <1>3, UntypedIs, TroublesBound DEF Typings, ReviewTypeOk, Snap, Sheet
<1>5. FlightOk' /\ ShownOk'
  <2>1. \A r \in seen' : r \in seen /\ Reviewed(server', r)
    BY <1>1 DEF Reviewed
  <2>2. NoOwn(flight)
    BY <1>1, NothingAwaited DEF SeenInv
  <2> QED BY <1>1, <2>1, <2>2, SeenKept
<1> QED BY <1>1, <1>2, <1>4, <1>5 DEF SeenInv

LEMMA ClaimSeen == ASSUME SeenInv, ClaimCase, UNCHANGED <<typings, presses>> PROVE SeenInv'
<1>1. /\ doing.step = "act" /\ doing' = NotDoing /\ page' \in {page, "left"} /\ (UNCHANGED troubles \/ Fails)
      /\ UNCHANGED <<view, sel, form, base, dirty, server, flight, owed, seen>>
  BY DEF ClaimCase, ghosts, Busy
<1>2. Typings'
  BY <1>1, TroublesBound DEF SeenInv, Typings, ReviewTypeOk
<1>3. FlightOk' /\ ShownOk'
  <2>1. \A r \in seen' : r \in seen /\ Reviewed(server', r)
    BY <1>1 DEF SeenInv, ShownOk
  <2>2. NoOwn(flight)
    BY <1>1, NothingAwaited DEF SeenInv
  <2> QED BY <1>1, <2>1, <2>2, SeenKept
<1> QED BY <1>1, <1>2, <1>3 DEF SeenInv, NotDoing

LEMMA BulkOneSeen == ASSUME SeenInv, BulkOne, UNCHANGED <<typings, presses>> PROVE SeenInv'
<1>1. /\ doing.kind # "none" /\ doing.step = "each" /\ (UNCHANGED troubles \/ Fails)
      /\ UNCHANGED <<page, view, sel, form, base, dirty, flight, owed, seen>>
      /\ \/ UNCHANGED server
         \/ \E r \in doing.todo : Open(r) /\ server' = [server EXCEPT ![r].status = "reviewed"]
  BY DEF BulkOne, Busy, pageVars, ghosts
<1>2. Typings /\ server \in Snap /\ doing \in Jobs /\ doing.todo \subseteq Receipt /\ page # "left"
  BY <1>1, BusySeen DEF SeenInv, Typings, ReviewTypeOk, Snap, Sheet, Jobs
<1>3. server' \in Snap /\ \A q \in Receipt : Reviewed(server, q) => Reviewed(server', q)
  <2>1. ASSUME NEW r \in doing.todo, Open(r), server' = [server EXCEPT ![r].status = "reviewed"] PROVE <1>3
    <3>1. r \in Receipt /\ server[r].status # "gone" /\ "reviewed" \in Standing
      BY <1>2, <2>1 DEF Open, Standing
    <3>2. Forward(server, server') /\ \A q \in Receipt : server'[q].status = IF q = r THEN "reviewed" ELSE server[q].status
      BY <1>2, <2>1, <3>1, CheckedIs
    <3> QED BY <3>2 DEF Forward, Reviewed
  <2> QED BY <1>1, <1>2, <2>1
<1>4. doing' \in Jobs
  <2>1. \A r \in doing.todo : {r} \in SUBSET Receipt /\ doing.todo \ {r} \in SUBSET Receipt
    BY <1>2
  <2>2. ASSUME NEW S \in SUBSET Receipt, doing' = [doing EXCEPT !.todo = S] \/ doing' = [doing EXCEPT !.step = "ask", !.todo = S]
        PROVE  doing' \in Jobs
    BY <1>2, <2>2 DEF Jobs, Steps
  <2>3. CASE doing' = [doing EXCEPT !.step = "ask"]
    BY <1>2, <2>3 DEF Jobs, Steps
  <2>4. \/ doing' = [doing EXCEPT !.step = "ask"]
        \/ \E r \in doing.todo : doing' = [doing EXCEPT !.todo = doing.todo \ {r}] \/ doing' = [doing EXCEPT !.step = "ask", !.todo = {r}]
    BY DEF BulkOne
  <2> QED BY <2>1, <2>2, <2>3, <2>4
<1>5. Typings'
  BY <1>1, <1>2, <1>3, <1>4, ServerTypes DEF Typings, ReviewTypeOk
<1>6. FlightOk' /\ ShownOk'
  <2>1. \A r \in seen' : r \in seen /\ Reviewed(server', r)
    BY <1>1, <1>2, <1>3 DEF SeenInv, ShownOk, Typings, ReviewTypeOk
  <2>2. NoOwn(flight)
    BY <1>1, NothingAwaited DEF SeenInv
  <2> QED BY <1>1, <2>1, <2>2, SeenKept
<1> QED BY <1>1, <1>2, <1>5, <1>6 DEF SeenInv

LEMMA ElsewhereSeen ==
  ASSUME SeenInv, NEW r \in Receipt, Elsewhere(r) \/ AReadLands(r), UNCHANGED <<typings, presses>> PROVE SeenInv'
<1>1. /\ page # "left" /\ (UNCHANGED troubles \/ Fails) /\ UNCHANGED <<page, view, sel, form, base, dirty, doing, flight, owed>>
      /\ \/ server' = [server EXCEPT ![r] = [@ EXCEPT !.details = "else", !.lines = "else"]]
         \/ server' = [server EXCEPT ![r].status = "gone"]
         \/ server' = Rewritten(r) /\ server[r].status = "reading"
      /\ seen' = {q \in seen : server'[q].status = "reviewed"} \/ (server[r].status = "reading" /\ server' = Rewritten(r) /\ UNCHANGED seen)
  BY DEF Elsewhere, AReadLands, pageVars, ghosts, Fails
<1>2. Typings /\ server \in Snap /\ server[r] \in Sheet /\ seen \subseteq Receipt
  BY DEF SeenInv, Typings, ReviewTypeOk, Snap, Sheet
<1>3. server' \in Snap /\ NoneChecked(server, server') /\ \A q \in Receipt : q # r => server'[q] = server[q]
  <2>1. PICK e \in Sheet : server' = [server EXCEPT ![r] = e] /\ (e.status = "reviewed" => server[r].status = "reviewed")
    <3>1. CASE server' = [server EXCEPT ![r] = [@ EXCEPT !.details = "else", !.lines = "else"]]
      <4>1. [server[r] EXCEPT !.details = "else", !.lines = "else"] \in Sheet
        BY <1>2 DEF Sheet, Value
      <4>2. [server[r] EXCEPT !.details = "else", !.lines = "else"].status = server[r].status
        BY <1>2 DEF Sheet
      <4> QED BY <3>1, <4>1, <4>2
    <3>2. CASE server' = [server EXCEPT ![r].status = "gone"]
      <4>1. [server[r] EXCEPT !.status = "gone"] \in Sheet /\ [server[r] EXCEPT !.status = "gone"].status = "gone"
        BY <1>2, SheetTold DEF Standing
      <4> QED BY <3>2, <4>1
    <3>3. CASE server' = Rewritten(r)
      <4>1. [status |-> "needed", details |-> "else", lines |-> "else"] \in Sheet
        BY DEF Sheet, Value, Standing
      <4> QED BY <3>3, <4>1 DEF Rewritten
    <3> QED BY <1>1, <3>1, <3>2, <3>3
  <2> QED BY <1>2, <2>1 DEF Snap, NoneChecked, Reviewed
<1>4. \A q \in seen' : q \in seen /\ Reviewed(server', q)
  BY <1>1, <1>2, <1>3 DEF SeenInv, ShownOk, Reviewed
<1>5. Typings'
  <2>1. seen' \subseteq seen
    BY <1>4
  <2> QED BY <1>1, <1>2, <1>3, <2>1, ServerTypes DEF Typings, ReviewTypeOk
<1>6. FlightOk' /\ ShownOk'
  BY <1>1, <1>3, <1>4, SeenKept
<1> QED BY <1>1, <1>5, <1>6 DEF SeenInv

LEMMA SeenGoesOn == ASSUME SeenInv, [ReviewNext]_reviewVars PROVE SeenInv'
<1>1. CASE UNCHANGED reviewVars
  BY <1>1 DEF SeenInv, Typings, ReviewTypeOk, FlightOk, ShownOk, CheckedStaysShown, reviewVars, pageVars, ghosts, bounds
<1>2. ASSUME NEW ps \in SUBSET Part, Type(ps) PROVE SeenInv'
  BY <1>2, TypingSeen
<1>3. ASSUME NEW kind \in AnyKind, Start(kind) PROVE SeenInv'
  BY <1>3, StartSeen
<1>4. CASE Others /\ UNCHANGED <<typings, presses>>
  <2>1. ASSUME NEW r \in Receipt, Move(r) \/ OpenReceipt(r) \/ Elsewhere(r) \/ AReadLands(r) PROVE SeenInv'
    BY <1>4, <2>1, MoveSeen, ElsewhereSeen
  <2>2. ASSUME NEW i \in DOMAIN flight, PollShown(i) \/ OwnLost(i) \/ OwnShown(i) \/ BulkListed(i) PROVE SeenInv'
    BY <1>4, <2>2, LandedSeen, OwnLostSeen
  <2>3. CASE Poll \/ SaveDetails \/ SaveLines \/ Act \/ ClaimCase \/ AskAgain \/ BulkOne
    BY <1>4, <2>3, PollSeen, SaveSeen, ActSeen, ClaimSeen, AskAgainSeen, BulkOneSeen
  <2> QED BY <1>4, <2>1, <2>2, <2>3 DEF Others
<1> QED BY <1>1, <1>2, <1>3, <1>4 DEF ReviewNext

\* A receipt shown as checked is never put back among those to check by an older answer,
\* in whatever order the polls, the saves and the changes made elsewhere come
\* (CaseReview.jsx load, its seq and shown).
THEOREM ChecksStayShown == ReviewSpec => [](ReviewTypeOk /\ CheckedStaysShown)
<1>1. ReviewInit => SeenInv
  BY ReviewBegins DEF ReviewInv, SeenInv, JobInv, FlightInv, ShownInv
<1>2. SeenInv /\ [ReviewNext]_reviewVars => SeenInv'
  BY SeenGoesOn
<1>3. SeenInv => ReviewTypeOk /\ CheckedStaysShown
  BY DEF SeenInv, Typings, ShownOk
<1> QED BY <1>1, <1>2, <1>3, PTL DEF ReviewSpec
=============================================================================
