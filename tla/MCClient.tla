------------------------------- MODULE MCClient -------------------------------
(* What people see and press, with the server behind it, each part checked   *)
(* on its own in one run: `part' says which one runs, the others stay as     *)
(* they began.                                                               *)
EXTENDS PhoneCapture, CaseCover, CaseUploads, PrintedRecord, Assistant, TLC

CONSTANTS phone, photo1, photo2, folio, zip, me, her, card1, talk1

Zipped == zip :> {folio}
Sends  == (folio :> 2) @@ (zip :> 1)

R(id, kind, c, on, rate, line) ==
  [id |-> id, under |-> on, kind |-> kind, named |-> TRUE, cents |-> c, on |-> on, included |-> FALSE, rate |-> rate, line |-> line]
\* A bill with a discount on one dish, and a folio with a tax on a charge on a night.
Bill  == <<R(1, "item", 4, 0, 0, me), R(2, "item", 3, 0, 6, her), R(3, "discount", -1, 2, 0, NoLine)>>
Folio == <<R(1, "item", 2, 0, 8, her), R(2, "charge", 1, 1, 0, NoLine), R(3, "tax", 1, 2, 8, NoLine)>>
Printouts == {Bill, Folio}

VARIABLE part

NothingPrinted ==
  /\ rows = <<>> /\ total = 0 /\ edits = 0 /\ nextId = 1 /\ record = <<>> /\ claim = NoClaim

Init ==
  /\ CaptureInit /\ CoverInit /\ UploadInit /\ AssistantInit
  /\ \/ part = "printed" /\ PrintedInit
     \/ part \in {"capture", "cover", "uploads", "assistant"} /\ NothingPrinted

Next ==
  /\ UNCHANGED part
  /\ \/ part = "capture" /\ CaptureNext /\ UNCHANGED <<coverVars, uploadVars, printedVars, assistantVars>>
     \/ part = "cover" /\ CoverNext /\ UNCHANGED <<captureVars, uploadVars, printedVars, assistantVars>>
     \/ part = "uploads" /\ UploadNext /\ UNCHANGED <<captureVars, coverVars, printedVars, assistantVars>>
     \/ part = "printed" /\ PrintedNext /\ UNCHANGED <<captureVars, coverVars, uploadVars, assistantVars>>
     \/ part = "assistant" /\ AssistantNext /\ UNCHANGED <<captureVars, coverVars, uploadVars, printedVars>>

Spec == Init /\ [][Next]_<<part, captureVars, coverVars, uploadVars, printedVars, assistantVars>>
=============================================================================
