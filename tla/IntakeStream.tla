----------------------------- MODULE IntakeStream ------------------------------
(***************************************************************************)
(* How a page keeps up with its case: the server sends the case's intake   *)
(* at once and whenever it differs from what it last sent                  *)
(* (routes/intake-stream.js), and the page asks for it instead while the   *)
(* stream is down (useIntake.js, useVisiblePolling.js).                    *)
(* The intake is a number that grows with every change to the case.  A     *)
(* connection that breaks is noticed; one may be silent from its start, a  *)
(* proxy holding the events back.                                          *)
(***************************************************************************)
EXTENDS Naturals, Sequences

CONSTANTS
  MaxVersion,  \* bound: changes to the case
  MaxFaults,   \* bound: streams that break, end or are held back
  MaxHides     \* bound: how often the tab is hidden

ASSUME IntakeStreamAssumption ==
  MaxVersion \in Nat /\ MaxFaults \in Nat /\ MaxHides \in Nat

VARIABLES
  known,    \* the page has a case: on New case, once the draft is made
  version,  \* the case as it is
  hidden,   \* the tab is not looked at
  onPage,    \* what the page shows
  mode,     \* "stream" or "poll": which of the two is to bring it
  conn,     \* the stream: whether it is open, held back, and has been heard
  wire,     \* the events on their way to the page
  last,     \* what this stream was last sent
  gather,   \* the server has been told of a change and is about to send
  retry,    \* the page waits to try the stream again
  load,     \* each answer being asked for: by the poll, and beside it
  faults, hides

intakeVars == <<known, version, hidden, onPage, mode, conn, wire, last, gather, retry, load, faults, hides>>
pageVars == <<onPage, mode, conn, wire, last, gather, retry>>

Load     == {"poll", "beside"}
NoStream == [open |-> FALSE, held |-> FALSE, heard |-> FALSE]
NoLoad   == [at |-> "none", got |-> 0, stale |-> FALSE]

StreamTypeOK ==
  /\ known \in BOOLEAN /\ version \in 0..MaxVersion /\ onPage \in 0..MaxVersion /\ last \in 0..MaxVersion + 1
  /\ hidden \in BOOLEAN /\ gather \in BOOLEAN /\ retry \in BOOLEAN
  /\ mode \in {"stream", "poll"}
  /\ conn \in [open : BOOLEAN, held : BOOLEAN, heard : BOOLEAN]
  /\ wire \in Seq(0..MaxVersion)
  /\ load \in [Load -> [at : {"none", "way", "back"}, got : 0..MaxVersion, stale : BOOLEAN]]
  /\ faults \in 0..MaxFaults /\ hides \in 0..MaxHides

Nothing == MaxVersion + 1

IntakeInitially ==
  /\ known = FALSE /\ version = 0 /\ hidden = FALSE /\ onPage = 0 /\ mode = "stream"
  /\ conn = NoStream /\ wire = <<>> /\ last = Nothing /\ gather = FALSE /\ retry = FALSE
  /\ load = [x \in Load |-> NoLoad]
  /\ faults = 0 /\ hides = 0

-----------------------------------------------------------------------------
(* The server.                                                             *)

\* A read moves on and says so, or something else changes the case and does not.
CaseChanges(says) ==
  /\ known /\ version < MaxVersion /\ version' = version + 1
  /\ gather' = (gather \/ (says /\ conn.open))
  /\ UNCHANGED <<known, hidden, onPage, mode, conn, wire, last, retry, load, faults, hides>>

\* send: the intake as it is now, if it is not what was sent last.
Differs == last # version

StreamSend ==
  /\ conn.open /\ (gather \/ Differs)
  /\ gather' = FALSE
  /\ IF Differs
     THEN last' = version /\ wire' = IF conn.held THEN wire ELSE Append(wire, version)
     ELSE UNCHANGED <<last, wire>>
  /\ UNCHANGED <<known, version, hidden, onPage, mode, conn, retry, load, faults, hides>>

-----------------------------------------------------------------------------
(* The page's stream.                                                      *)

\* open: the stream is asked for, and sent the intake at once.
OpenStream(held) ==
  /\ conn' = [open |-> TRUE, held |-> held, heard |-> FALSE]
  /\ last' = version /\ gather' = FALSE
  /\ wire' = IF held THEN <<>> ELSE <<version>>

NoConn == conn' = NoStream /\ wire' = <<>> /\ last' = Nothing /\ gather' = FALSE

CaseKnown ==
  /\ ~known /\ known' = TRUE
  /\ UNCHANGED <<version, hidden, pageVars, load, faults, hides>>

MayHold(held) == held => faults < MaxFaults
Counted(fault) == faults' = IF fault THEN faults + 1 ELSE faults

StreamOpens(held) ==
  /\ known /\ ~conn.open /\ ~hidden /\ ~retry /\ mode = "stream" /\ MayHold(held)
  /\ OpenStream(held) /\ Counted(held)
  /\ UNCHANGED <<known, version, hidden, onPage, mode, retry, load, hides>>

\* An event lands.  An answer asked for before it is older, or no newer.
Event ==
  /\ wire # <<>>
  /\ onPage' = Head(wire) /\ wire' = Tail(wire)
  /\ conn' = [conn EXCEPT !.heard = TRUE]
  /\ load' = [x \in Load |-> IF load[x].at = "none" THEN load[x] ELSE [load[x] EXCEPT !.stale = TRUE]]
  /\ UNCHANGED <<known, version, hidden, mode, last, gather, retry, faults, hides>>

\* An answer asked for beside the poll, one at a time.
Asked == load' = [load EXCEPT !["beside"] = IF @.at = "none" THEN [NoLoad EXCEPT !.at = "way"] ELSE @]

\* fallBack: the poll stands in, and asks at once; the stream is tried again later.
FallBack == mode' = "poll" /\ Asked /\ retry' = TRUE /\ NoConn

\* Nothing within FIRST_EVENT_MS, only of a stream held back.
Silent ==
  /\ conn.open /\ conn.held
  /\ FallBack
  /\ UNCHANGED <<known, version, hidden, onPage, faults, hides>>

\* The stream breaks, or the server has restarted.
Breaks ==
  /\ conn.open /\ faults < MaxFaults /\ faults' = faults + 1
  /\ FallBack
  /\ UNCHANGED <<known, version, hidden, onPage, hides>>

\* The server ends it after its quarter of an hour: opened again at once.
TimeUp(held) ==
  /\ conn.open /\ conn.heard /\ wire = <<>> /\ faults < MaxFaults /\ faults' = faults + 1
  /\ OpenStream(held)
  /\ UNCHANGED <<known, version, hidden, onPage, mode, retry, load, hides>>

TriedAgain(held) ==
  /\ retry /\ ~conn.open /\ MayHold(held)
  /\ retry' = FALSE /\ mode' = "stream"
  /\ OpenStream(held) /\ Counted(held)
  /\ UNCHANGED <<known, version, hidden, onPage, load, hides>>

Hide ==
  /\ ~hidden /\ hides < MaxHides
  /\ hidden' = TRUE /\ hides' = hides + 1
  /\ retry' = FALSE /\ mode' = "stream" /\ NoConn
  /\ UNCHANGED <<known, version, onPage, load, faults>>

Look ==
  /\ hidden /\ hidden' = FALSE
  /\ UNCHANGED <<known, version, pageVars, load, faults, hides>>

-----------------------------------------------------------------------------
(* Asking.                                                                 *)

\* The poll's tick: it asks nothing while the stream is wanted.
PollAsks ==
  /\ mode = "poll" /\ ~hidden /\ load["poll"].at = "none"
  /\ load' = [load EXCEPT !["poll"] = [NoLoad EXCEPT !.at = "way"]]
  /\ UNCHANGED <<known, version, hidden, pageVars, faults, hides>>

\* refresh: a row's button was pressed.
Refreshes ==
  /\ known /\ load["beside"].at = "none" /\ faults < MaxFaults /\ faults' = faults + 1 /\ Asked
  /\ UNCHANGED <<known, version, hidden, pageVars, hides>>

Reads(x) ==
  /\ load[x].at = "way"
  /\ load' = [load EXCEPT ![x].at = "back", ![x].got = version]
  /\ UNCHANGED <<known, version, hidden, pageVars, faults, hides>>

\* An answer that failed changes nothing that is shown.
ReadFails(x) ==
  /\ load[x].at = "way" /\ faults < MaxFaults /\ faults' = faults + 1
  /\ load' = [load EXCEPT ![x] = NoLoad]
  /\ UNCHANGED <<known, version, hidden, pageVars, hides>>

\* load: an answer asked for before the stream last spoke is dropped.
\* mutant: whatever comes back is shown.
TakesAny(x) == TRUE

Takes(x) == ~load[x].stale

LoadAnswered(x) ==
  /\ load[x].at = "back"
  /\ onPage' = IF Takes(x) THEN load[x].got ELSE onPage
  /\ load' = [load EXCEPT ![x] = NoLoad]
  /\ UNCHANGED <<known, version, hidden, mode, conn, wire, last, gather, retry, faults, hides>>

StreamNext ==
  \/ \E says \in BOOLEAN : CaseChanges(says)
  \/ CaseKnown \/ StreamSend \/ Event \/ Silent \/ Breaks \/ Hide \/ Look
  \/ \E held \in BOOLEAN : StreamOpens(held) \/ TimeUp(held) \/ TriedAgain(held)
  \/ PollAsks \/ Refreshes
  \/ \E x \in Load : Reads(x) \/ ReadFails(x) \/ LoadAnswered(x)

\* The server's timers fire, what is on the wire arrives, the page's timers
\* fire: the stream is opened, given up on and tried again.
StreamFairness ==
  /\ WF_intakeVars(StreamSend) /\ WF_intakeVars(Event) /\ WF_intakeVars(Silent)
  /\ WF_intakeVars(StreamOpens(FALSE)) /\ WF_intakeVars(TriedAgain(FALSE))
  /\ WF_intakeVars(PollAsks)
  /\ \A x \in Load : WF_intakeVars(Reads(x)) /\ WF_intakeVars(LoadAnswered(x))

StreamSpec == IntakeInitially /\ [][StreamNext]_intakeVars /\ StreamFairness

-----------------------------------------------------------------------------
\* A tab looked at always has something to bring it the next change: a
\* stream, one about to be opened, or the poll with the stream to be tried again.
NeverDeaf == known /\ ~hidden /\ ~conn.open => (mode = "poll" <=> retry)

\* Once the case has changed for the last time, a tab that is looked at comes
\* to show it and goes on showing it, whether the change was announced or
\* not, through streams that break, end or stay silent.
CatchesUp == [](StreamTypeOK /\ NeverDeaf) /\ <>[](~known \/ hidden \/ onPage = version)
=============================================================================
