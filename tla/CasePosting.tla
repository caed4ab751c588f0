---------------------------- MODULE CasePosting ----------------------------
(***************************************************************************)
(* A claimed case sent to Xero as one draft bill: xero/bills.js postReport *)
(* with the marker of store/reports.js (claimForPost, recordBill,          *)
(* releasePost), composed with everything that may happen to the case and  *)
(* its receipts meanwhile (Cases).                                         *)
(*                                                                         *)
(* postReport runs alone up to its first await: it takes the marker and    *)
(* reads what the bill will say in one step (Begin).  It then waits for    *)
(* the accounts, the token, the contact and the bill itself, and Xero's    *)
(* making of the bill (XeroMakesBill) and the program's hearing of it      *)
(* (RecordBill, or PostFails when it never does) are two steps.            *)
(***************************************************************************)
EXTENDS Cases

CONSTANTS
  Attempt,    \* posts of a case that may be under way at once
  Setting,    \* what a bill takes from outside its case: the chart of accounts and
              \* tax rates as they were read, account settings, the claimant's name
  SlowPosts,  \* whether a post may outlive its marker's ten minutes
  MaxBills    \* bound: how many bills Xero makes

ASSUME PostingAssumption ==
  /\ SlowPosts \in BOOLEAN
  /\ MaxBills \in Nat
  /\ {"unclaimed", "alone"} \cap Case = {}  \* the register's words are no case's id

VARIABLES
  pc,      \* where each attempt is
  on,      \* the case it posts, NoCase when idle
  sent,    \* the bill it built
  got,     \* the id Xero answered with, 0 before
  bills    \* external: the bills Xero holds, each with the key it was asked with

postVars == <<pc, on, sent, got, bills>>
allVars  == <<vars, postVars>>

Saying == [lines : [Receipt -> Figure], cover : Covers \cup {NoCover}, day : Days \cup {0}]
Bill   == [says : Saying, setting : Setting]
NoBill == [says |-> [lines |-> [r \in Receipt |-> NoRate], cover |-> NoCover, day |-> 0], setting |-> "none"]
Stage  == {"idle", "building", "made", "attaching"}
XeroBill == [id : Nat \ {0}, case : Case, bill : Bill]

PostTypeOK ==
  /\ TypeOK
  /\ pc \in [Attempt -> Stage]
  /\ on \in [Attempt -> Case \cup {NoCase}]
  /\ sent \in [Attempt -> Bill \cup {NoBill}]
  /\ got \in [Attempt -> Nat]
  /\ bills \subseteq XeroBill

PostInit ==
  /\ Init
  /\ pc = [a \in Attempt |-> "idle"]
  /\ on = [a \in Attempt |-> NoCase]
  /\ sent = [a \in Attempt |-> NoBill]
  /\ got = [a \in Attempt |-> 0]
  /\ bills = {}

-----------------------------------------------------------------------------
\* What each receipt of the case comes to; the others say nothing on its bill.
LinesOf(c) == [r \in Receipt |-> IF reportId[r] = c THEN base[r] ELSE NoRate]

\* What the case itself puts on its bill: the lines, the title or purpose with
\* the advance taken off, and the day it was claimed.
SaysOf(c) == [lines |-> LinesOf(c), cover |-> cover[c], day |-> claimDay[c]]

\* mutant: the bill carries when it was built.
BillOfNow(c, setting) == [says |-> SaysOf(c), setting |-> <<setting, Cardinality(bills)>>]

BillOf(c, setting) == [says |-> SaysOf(c), setting |-> setting]

\* The idempotency key: the case and a digest of the contact and the bill.
Key(c, bill) == <<c, bill>>

\* postProblems finds nothing wrong with the receipts.
NoProblems(c) ==
  \A r \in Members(c) : Priced(r) /\ adds[r] /\ expStatus[r] \notin {"reading", "duplicate"}

Postable(c) ==
  /\ xeroInvoiceId[c] = 0
  /\ caseStatus[c] = "claimed"
  /\ Members(c) # {}
  /\ NoProblems(c)

\* mutant: somebody else's live marker does not count.
ClaimOverOther(c) ==
  /\ xeroInvoiceId[c] = 0
  /\ caseStatus[c] = "claimed"
  /\ xeroError' = [xeroError EXCEPT ![c] = "posting"]

\* The one UPDATE that decides who posts: no bill, claimed, and no live marker.
ClaimForPost(c) ==
  /\ xeroInvoiceId[c] = 0
  /\ caseStatus[c] = "claimed"
  /\ ~IsPosting(c)
  /\ xeroError' = [xeroError EXCEPT ![c] = "posting"]

\* Only a marker is cleared, whosever it is.
ReleasePost(c) ==
  xeroError' = [xeroError EXCEPT ![c] = "none"]

Idle(a) ==
  /\ pc' = [pc EXCEPT ![a] = "idle"]
  /\ on' = [on EXCEPT ![a] = NoCase]
  /\ sent' = [sent EXCEPT ![a] = NoBill]
  /\ got' = [got EXCEPT ![a] = 0]

caseRest == <<caseStatus, number, nextReportNo, cover, claimDay>>

Begin(a, c) ==
  /\ pc[a] = "idle"
  /\ Postable(c)
  /\ ClaimForPost(c)
  /\ pc' = [pc EXCEPT ![a] = "building"]
  /\ on' = [on EXCEPT ![a] = c]
  /\ \E setting \in Setting : sent' = [sent EXCEPT ![a] = BillOf(c, setting)]
  /\ UNCHANGED <<caseRest, xeroInvoiceId, expVars, waiting, got, bills>>

\* createInvoices reaches Xero, which answers a key it knows with the bill it
\* made for it, and makes a new one otherwise.
XeroMakesBill(a) ==
  /\ pc[a] = "building"
  /\ LET known == {b \in bills : Key(b.case, b.bill) = Key(on[a], sent[a])}
         next  == Cardinality(bills) + 1
     IN \/ \E b \in known :
             /\ got' = [got EXCEPT ![a] = b.id]
             /\ UNCHANGED bills
        \/ /\ known = {} /\ next <= MaxBills
           /\ got' = [got EXCEPT ![a] = next]
           /\ bills' = bills \cup {[id |-> next, case |-> on[a], bill |-> sent[a]]}
  /\ pc' = [pc EXCEPT ![a] = "made"]
  /\ UNCHANGED <<caseVars, expVars, waiting, on, sent>>

\* A refusal, ours or Xero's, or a reply that never came, bill made or not.
PostFails(a) ==
  /\ pc[a] \in {"building", "made"}
  /\ ReleasePost(on[a])
  /\ Idle(a)
  /\ UNCHANGED <<caseRest, xeroInvoiceId, expVars, waiting, bills>>

\* mutant: recorded over whatever bill is there.
RecordOver(a) ==
  LET c == on[a] IN
  /\ pc[a] = "made"
  /\ caseStatus[c] # "deleted"
  /\ xeroInvoiceId' = [xeroInvoiceId EXCEPT ![c] = got[a]]
  /\ xeroError' = [xeroError EXCEPT ![c] = "none"]
  /\ pc' = [pc EXCEPT ![a] = "attaching"]
  /\ UNCHANGED <<caseRest, expVars, waiting, on, sent, got, bills>>

\* Recorded once.  An attempt that finds another bill there says so and ends;
\* one that finds its own goes on to the receipts; one whose case is gone ends.
RecordBill(a) ==
  LET c == on[a] IN
  /\ pc[a] = "made"
  /\ \/ /\ xeroInvoiceId[c] = 0 /\ caseStatus[c] # "deleted"
        /\ xeroInvoiceId' = [xeroInvoiceId EXCEPT ![c] = got[a]]
        /\ xeroError' = [xeroError EXCEPT ![c] = "none"]
        /\ pc' = [pc EXCEPT ![a] = "attaching"]
        /\ UNCHANGED <<on, sent, got>>
     \/ /\ xeroInvoiceId[c] = got[a] /\ caseStatus[c] # "deleted"
        /\ pc' = [pc EXCEPT ![a] = "attaching"]
        /\ UNCHANGED <<xeroInvoiceId, xeroError, on, sent, got>>
     \/ /\ xeroInvoiceId[c] \notin {0, got[a]} \/ caseStatus[c] = "deleted"
        /\ Idle(a)
        /\ UNCHANGED <<xeroInvoiceId, xeroError>>
  /\ UNCHANGED <<caseRest, expVars, waiting, bills>>

\* The receipts are attached, or noted as not; the last write clears the note.
Attached(a) ==
  /\ pc[a] = "attaching"
  /\ xeroError' = [xeroError EXCEPT ![on[a]] = "none"]
  /\ Idle(a)
  /\ UNCHANGED <<caseRest, xeroInvoiceId, expVars, waiting, bills>>

\* Ten minutes since the row was written.
MarkerAges(c) ==
  /\ IsPosting(c)
  /\ SlowPosts \/ \A a \in Attempt : on[a] = c => pc[a] = "attaching"
  /\ xeroError' = [xeroError EXCEPT ![c] = "stale"]
  /\ UNCHANGED <<caseRest, xeroInvoiceId, expVars, waiting, postVars>>

\* The process stops and starts.  Markers and rows stay; attempts are gone,
\* whatever Xero had already made for them.
PostRestart ==
  /\ Restart
  /\ pc' = [a \in Attempt |-> "idle"]
  /\ on' = [a \in Attempt |-> NoCase]
  /\ sent' = [a \in Attempt |-> NoBill]
  /\ got' = [a \in Attempt |-> 0]
  /\ UNCHANGED bills

AttemptStep(a) ==
  \/ XeroMakesBill(a)
  \/ PostFails(a)
  \/ RecordBill(a)
  \/ Attached(a)

PostStep ==
  \/ \E a \in Attempt : AttemptStep(a) \/ \E c \in Case : Begin(a, c)
  \/ \E c \in Case : MarkerAges(c)

PostNext ==
  \/ Next /\ UNCHANGED postVars
  \/ PostStep
  \/ PostRestart

PostSpec == PostInit /\ [][PostNext]_allVars

\* A request under way is answered or fails, and time passes: a post ends and a
\* marker ages.  Nothing makes a person, or a restart, do anything.
PostFairness ==
  /\ \A a \in Attempt : WF_allVars(AttemptStep(a))
  /\ \A c \in Case : WF_allVars(MarkerAges(c))

FairPostSpec == PostSpec /\ PostFairness

-----------------------------------------------------------------------------
(* What makes the posting right.                                           *)

Live(a) == pc[a] \in {"building", "made"}

\* One post of a case at a time: two clicks, or a takeover, never have two
\* attempts building or waiting for a bill (store/reports.js claimForPost).
OnePost ==
  \A a, b \in Attempt : Live(a) /\ Live(b) /\ on[a] = on[b] => a = b

\* A bill is only ever on a claimed case: no reopening gets between the marker
\* and the bill, and none after it (workflow.js reopen).
BillOnlyOnClaimed ==
  \A c \in Case : xeroInvoiceId[c] # 0 => caseStatus[c] = "claimed"

\* The bill a case keeps is one Xero holds for this case, and says what the
\* case says: "what is read now is what is posted" (xero/bills.js).
BillSaysCase ==
  \A c \in Case : xeroInvoiceId[c] # 0 =>
    \E b \in bills : b.id = xeroInvoiceId[c] /\ b.case = c /\ b.bill.says = SaysOf(c)

\* However often a case is posted that says what it said, to the lines, the
\* cover and the day of its claim, Xero holds one bill for it: lost replies,
\* restarts and posts that overlap, or a case reopened in between and put back
\* as it was (xero/bills.js idempotencyKey).
SameCaseSameBill ==
  \A b1, b2 \in bills : b1.case = b2.case /\ b1.bill.says = b2.bill.says => b1.id = b2.id

\* While a post is live its case is claimed, without a bill and marked, so
\* reopening it and editing its receipts are refused.
LiveIsHeld ==
  \A a \in Attempt : Live(a) =>
    /\ caseStatus[on[a]] = "claimed"
    /\ xeroInvoiceId[on[a]] = 0
    /\ IsPosting(on[a])

\* A bill once on a case stays that bill for as long as the case is there.
BillKept ==
  [][\A c \in Case : xeroInvoiceId[c] # 0 /\ caseStatus'[c] # "deleted" => xeroInvoiceId'[c] = xeroInvoiceId[c]]_allVars

\* A marker never refuses a claimed case for good: it is cleared, or it ages
\* and is taken over (store/reports.js POST_STALE_MS).
MarkerNeverStuck ==
  \A c \in Case : (caseStatus[c] = "claimed" /\ IsPosting(c)) ~> ~(caseStatus[c] = "claimed" /\ IsPosting(c))

\* The register of claims this implements: who is claimed how, and what is final.
ClaimOf(r) ==
  IF ~claimedAt[r] THEN "unclaimed"
  ELSE IF reportId[r] = NoCase THEN "alone" ELSE reportId[r]

Register == INSTANCE ClaimRegister WITH
  Unclaimed <- "unclaimed", Alone <- "alone",
  claim <- [r \in Receipt |-> ClaimOf(r)],
  final <- {c \in Case : xeroInvoiceId[c] # 0}

\* Every step of the system is a step of the register, or none: a receipt is
\* claimed once, a case whole or not at all, and what is in Xero is final.
RegisterSpec == Register!Spec

\* One post of a case at a time, and from its marker to its bill nobody reopens
\* or edits what it posts (xero/bills.js postReport, workflow.js isPosting).
PostsHold == PostTypeOK /\ OnePost /\ LiveIsHeld /\ BillOnlyOnClaimed
=============================================================================
