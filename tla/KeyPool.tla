------------------------------- MODULE KeyPool -------------------------------
(***************************************************************************)
(* The requests put to the model (llm/gemini-client.js): the queue in      *)
(* front of a set of keys, each key's own minute, the pairs of a key and a *)
(* model that are cooling down, and the rotation of one request over them. *)
(***************************************************************************)
EXTENDS Naturals, Sequences, FiniteSets, Functions

CONSTANTS
  Asker,          \* requests somebody waits for: interactive, streamed
  Reading,        \* requests of receipts being read in the background
  Keys,           \* the keys, in rotation order (a sequence)
  Models,         \* GEMINI_MODELS, in order (a sequence)
  PerMinute,      \* RPM
  MaxConcurrent   \* _concurrency of the set of keys

ASSUME PoolAssumption ==
  /\ Asker \cap Reading = {}
  /\ Keys \in Seq(Range(Keys)) \ {<<>>} /\ Models \in Seq(Range(Models)) \ {<<>>}
  /\ PerMinute \in Nat \ {0} /\ MaxConcurrent \in Nat \ {0}

PoolRequest == Asker \cup Reading
Pair    == [key : Range(Keys), model : Range(Models)]
Nobody  == [key |-> "no key"]

VARIABLES
  state,     \* where each request is
  queue,     \* Limiter.queue
  draining,  \* _drain has more to do; nothing else runs meanwhile
  timer,     \* Limiter._timer is set
  cool,      \* _cool: the pairs left alone for now
  sent,      \* _sent: what each key sent in the last minute
  asking,    \* the pair each running request has asked
  left,      \* what is left of each request's list of pairs
  retried,   \* who had its one try more after a transient failure
  shown      \* from how many attempts a person has read words

poolVars == <<state, queue, draining, timer, cool, sent, asking, left, retried, shown>>

Entry == [pair : Pair, late : BOOLEAN]

PoolTypeOK ==
  /\ state \in [PoolRequest -> {"new", "queued", "running", "answered", "failed"}]
  /\ queue \in Seq(PoolRequest) /\ IsInjective(queue)
  /\ Range(queue) = {r \in PoolRequest : state[r] = "queued"}
  /\ draining \in BOOLEAN /\ timer \in BOOLEAN
  /\ cool \subseteq Pair
  /\ sent \in [Range(Keys) -> Nat]
  /\ asking \in [PoolRequest -> Pair \cup {Nobody}] /\ left \in [PoolRequest -> Seq(Entry)]
  /\ \A r \in PoolRequest : asking[r] \in Pair <=> state[r] = "running"
  /\ retried \subseteq PoolRequest
  /\ shown \in [Asker -> Nat]

PoolInit ==
  /\ state = [r \in PoolRequest |-> "new"]
  /\ queue = <<>> /\ draining = FALSE /\ timer = FALSE
  /\ cool = {} /\ sent = [k \in Range(Keys) |-> 0]
  /\ asking = [r \in PoolRequest |-> Nobody] /\ left = [r \in PoolRequest |-> <<>>]
  /\ retried = {} /\ shown = [p \in Asker |-> 0]

RunningNow == {r \in PoolRequest : state[r] = "running"}
HasRoom(k) == sent[k] < PerMinute

\* models.flatMap(model => keys.map(...)): the fast model on every key first.
Pairs ==
  [i \in 1..(Len(Keys) * Len(Models)) |->
     [pair |-> [key |-> Keys[((i - 1) % Len(Keys)) + 1], model |-> Models[((i - 1) \div Len(Keys)) + 1]],
      late |-> FALSE]]

(***************************************************************************)
(* The rotation                                                            *)
(***************************************************************************)
\* The elements of L at the places in S, in the order they stand in.
InOrder(L, S) == [n \in 1..Cardinality(S) |-> L[CHOOSE i \in S : Cardinality({j \in S : j < i}) = n - 1]]

\* What a request asks next: it passes over the pairs cooling down, and puts
\* those of a key whose minute is full behind the others.
Usable(cooling, L) == {i \in DOMAIN L : L[i].pair \notin cooling /\ (L[i].late \/ HasRoom(L[i].pair.key))}
PutOff(cooling, L) ==
  LET hot == InOrder(L, {i \in DOMAIN L : L[i].pair \notin cooling})
  IN  [i \in DOMAIN hot |-> [hot[i] EXCEPT !.late = TRUE]]

Advance(cooling, L) ==
  LET ok == Usable(cooling, L) IN
  IF ok = {} THEN PutOff(cooling, L)
  ELSE LET i == CHOOSE i \in ok : \A j \in ok : i <= j
       IN  SubSeq(L, i, Len(L)) \o PutOff(cooling, SubSeq(L, 1, i - 1))

\* A running request goes on to the first of L, or is out of pairs.
GoesOn(r, cooling, L) ==
  IF L = <<>>
  THEN /\ state' = [state EXCEPT ![r] = "failed"]
       /\ asking' = [asking EXCEPT ![r] = Nobody] /\ left' = [left EXCEPT ![r] = <<>>]
       /\ draining' = TRUE
       /\ UNCHANGED sent
  ELSE /\ state' = [state EXCEPT ![r] = "running"]
       /\ asking' = [asking EXCEPT ![r] = Head(L).pair] /\ left' = [left EXCEPT ![r] = Tail(L)]
       /\ sent' = [sent EXCEPT ![Head(L).pair.key] = @ + 1]
       /\ UNCHANGED draining

Over(r, how) ==
  /\ state' = [state EXCEPT ![r] = how]
  /\ asking' = [asking EXCEPT ![r] = Nobody] /\ left' = [left EXCEPT ![r] = <<>>]
  /\ draining' = TRUE
  /\ UNCHANGED sent

(***************************************************************************)
(* The queue                                                               *)
(***************************************************************************)
\* A person goes behind other people and ahead of what is read.
Joined(r) ==
  LET reads == {i \in DOMAIN queue : queue[i] \in Reading}
      first == CHOOSE i \in reads : \A j \in reads : i <= j
  IN  IF r \in Reading \/ reads = {} THEN Append(queue, r)
      ELSE SubSeq(queue, 1, first - 1) \o <<r>> \o SubSeq(queue, first, Len(queue))

Without(r) ==
  LET at == CHOOSE i \in DOMAIN queue : queue[i] = r
  IN  SubSeq(queue, 1, at - 1) \o SubSeq(queue, at + 1, Len(queue))

EnqueueRequest(r) ==
  /\ ~draining /\ state[r] = "new"
  /\ state' = [state EXCEPT ![r] = "queued"]
  /\ queue' = Joined(r)
  /\ draining' = TRUE
  /\ UNCHANGED <<timer, cool, sent, asking, left, retried, shown>>

\* mutant: background work may hold every slot.
SlotForAnyone(r) == Cardinality(RunningNow) < MaxConcurrent

SlotFor(r) ==
  /\ Cardinality(RunningNow) < MaxConcurrent
  /\ r \in Reading => Cardinality(RunningNow \cap Reading) < IF MaxConcurrent > 1 THEN MaxConcurrent - 1 ELSE 1

AllCooling == cool = Pair
CanGo      == \E p \in Pair \ cool : HasRoom(p.key)

\* _drain, one turn of its loop.
DrainStarts(r) ==
  /\ draining /\ queue # <<>> /\ r = Head(queue) /\ SlotFor(r) /\ CanGo
  /\ queue' = Tail(queue)
  /\ LET L == Advance(cool, Pairs) IN
       /\ state' = [state EXCEPT ![r] = "running"]
       /\ asking' = [asking EXCEPT ![r] = Head(L).pair] /\ left' = [left EXCEPT ![r] = Tail(L)]
       /\ sent' = [sent EXCEPT ![Head(L).pair.key] = @ + 1]
  /\ UNCHANGED <<draining, timer, cool, retried, shown>>

\* Every pair is cooling: a person is told so at once, and a read that has
\* waited a minute, or would have to wait longer, is turned away.
DrainTurnsAway(r) ==
  /\ draining /\ queue # <<>> /\ r = Head(queue) /\ SlotFor(r) /\ AllCooling
  /\ queue' = Tail(queue)
  /\ state' = [state EXCEPT ![r] = "failed"]
  /\ UNCHANGED <<draining, timer, cool, sent, asking, left, retried, shown>>

\* mutant: the wait is left to whatever ends next.
DrainWaitsUntimed ==
  /\ draining /\ queue # <<>> /\ SlotFor(Head(queue)) /\ ~CanGo
  /\ AllCooling => Head(queue) \in Reading
  /\ draining' = FALSE
  /\ UNCHANGED <<state, queue, timer, cool, sent, asking, left, retried, shown>>

DrainWaits ==
  /\ draining /\ queue # <<>> /\ SlotFor(Head(queue)) /\ ~CanGo
  /\ AllCooling => Head(queue) \in Reading
  /\ timer' = TRUE /\ draining' = FALSE
  /\ UNCHANGED <<state, queue, cool, sent, asking, left, retried, shown>>

DrainStops ==
  /\ draining /\ (queue # <<>> => ~SlotFor(Head(queue)))
  /\ draining' = FALSE
  /\ UNCHANGED <<state, queue, timer, cool, sent, asking, left, retried, shown>>

TimerFires ==
  /\ ~draining /\ timer
  /\ timer' = FALSE /\ draining' = TRUE
  /\ UNCHANGED <<state, queue, cool, sent, asking, left, retried, shown>>

(***************************************************************************)
(* What comes back                                                         *)
(***************************************************************************)
Answers(r) ==
  /\ ~draining /\ state[r] = "running"
  /\ Over(r, "answered")
  /\ shown' = IF r \in Asker THEN [shown EXCEPT ![r] = @ + 1] ELSE shown
  /\ UNCHANGED <<queue, timer, cool, retried>>

\* A 503 is the model overloaded for everyone: its other pairs go last.
Demoted(L, m) ==
  LET same == {i \in DOMAIN L : L[i].pair.model = m}
  IN  InOrder(L, DOMAIN L \ same) \o InOrder(L, same)

Words(r) == IF r \in Asker THEN BOOLEAN ELSE {FALSE}
Read(r, streamed) == shown' = IF streamed THEN [shown EXCEPT ![r] = @ + 1] ELSE shown

QuotaFails(r, overloaded, streamed) ==
  /\ ~draining /\ state[r] = "running"
  /\ cool' = cool \cup {asking[r]}
  /\ IF streamed THEN Over(r, "failed")
     ELSE GoesOn(r, cool', Advance(cool', IF overloaded THEN Demoted(left[r], asking[r].model) ELSE left[r]))
  /\ Read(r, streamed)
  /\ UNCHANGED <<queue, timer, retried>>

TransientFails(r, streamed) ==
  /\ ~draining /\ state[r] = "running" /\ r \notin retried
  /\ IF streamed THEN Over(r, "failed") /\ UNCHANGED <<cool, retried>>
     ELSE /\ cool' = cool \cup {asking[r]} /\ retried' = retried \cup {r}
          /\ GoesOn(r, cool', Advance(cool', left[r]))
  /\ Read(r, streamed)
  /\ UNCHANGED <<queue, timer>>

\* A refused key, a bad request, a second transient failure, a reply cut off.
CallFails(r, streamed) ==
  /\ ~draining /\ state[r] = "running"
  /\ Over(r, "failed")
  /\ Read(r, streamed)
  /\ UNCHANGED <<queue, timer, cool, retried>>

\* The caller gives up: a request that waits leaves the queue.
Abort(r) ==
  /\ ~draining
  /\ \/ /\ state[r] = "queued"
        /\ state' = [state EXCEPT ![r] = "failed"]
        /\ queue' = Without(r)
        /\ UNCHANGED <<draining, sent, asking, left>>
     \/ /\ state[r] = "running" /\ Over(r, "failed") /\ UNCHANGED queue
  /\ UNCHANGED <<timer, cool, retried, shown>>

CoolEnds(p) ==
  /\ ~draining /\ p \in cool /\ cool' = cool \ {p}
  /\ UNCHANGED <<state, queue, draining, timer, sent, asking, left, retried, shown>>

LeavesMinute(k) ==
  /\ ~draining /\ sent[k] > 0 /\ sent' = [sent EXCEPT ![k] = @ - 1]
  /\ UNCHANGED <<state, queue, draining, timer, cool, asking, left, retried, shown>>

PoolNext ==
  \/ \E r \in PoolRequest :
       \/ EnqueueRequest(r) \/ DrainStarts(r) \/ DrainTurnsAway(r) \/ Answers(r) \/ Abort(r)
       \/ \E streamed \in Words(r) :
            \/ \E overloaded \in BOOLEAN : QuotaFails(r, overloaded, streamed)
            \/ TransientFails(r, streamed) \/ CallFails(r, streamed)
  \/ DrainWaits \/ DrainStops \/ TimerFires
  \/ \E p \in Pair : CoolEnds(p)
  \/ \E k \in Range(Keys) : LeavesMinute(k)

\* A call has a timeout of two minutes; a cooling and a minute end.  They are
\* shut out only while _drain runs, which in the code is one turn: hence SF.
PoolFairness ==
  /\ WF_poolVars(DrainWaits \/ DrainStops \/ \E r \in PoolRequest : DrainStarts(r) \/ DrainTurnsAway(r))
  /\ WF_poolVars(TimerFires)
  /\ \A r \in PoolRequest : SF_poolVars(Answers(r) \/ CallFails(r, FALSE))
  /\ \A p \in Pair : SF_poolVars(CoolEnds(p))
  /\ \A k \in Range(Keys) : SF_poolVars(LeavesMinute(k))

PoolSpec == PoolInit /\ [][PoolNext]_poolVars /\ PoolFairness

(***************************************************************************)
(* Properties                                                              *)
(***************************************************************************)
\* No request is left in the queue with nothing to look at it again: a timer,
\* or a request under way whose end drains the queue.
NoneForgotten == queue # <<>> /\ ~draining => timer \/ RunningNow # {}

\* Receipts being read never hold the slot kept for a person waiting.
SlotForAPerson ==
  MaxConcurrent > 1 => Cardinality(RunningNow \cap Reading) < MaxConcurrent

\* A person is shown the words of one attempt, never the same words twice.
ShownOnce == \A p \in Asker : shown[p] <= 1

PoolHolds == PoolTypeOK /\ NoneForgotten /\ SlotForAPerson /\ ShownOnce

\* Everybody who asks is answered or told why not.
EveryRequestEnds == \A r \in PoolRequest : state[r] = "queued" ~> state[r] \in {"answered", "failed"}
=============================================================================
