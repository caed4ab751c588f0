------------------------------ MODULE MCCases ------------------------------
(* Cases for TLC, and the receipts that come many at once (MailIntake), on   *)
(* their own in the same run: `part' says which.  Receipts are               *)
(* interchangeable and so are cases.                                         *)
EXTENDS Cases, MailIntake, TLC

CONSTANTS meg, ned, trip1, pdf1, photo1, heic1, logo1, letter1, letter2, mail1, mail2, zip1, form1

Trips == trip1 :> meg
Piece(id, k) == [id |-> id, kind |-> k]
To(p) == [owner |-> p, address |-> 1]
\* Three attachments for two people; a mail attached to a mail, all text; a zip of one
\* receipt too many, one of them in a mail too; and a claim to import.
Contents ==
  (mail1 :> [id |-> mail1, from |-> meg, to |-> <<To(meg)>>, subject |-> <<trip1>>, text |-> FALSE,
             parts |-> <<Piece(pdf1, "pdf"), Piece(heic1, "heic"), Piece(logo1, "logo")>>]) @@
  (mail2 :> [id |-> mail2, from |-> ned, to |-> <<To(ned), To(meg)>>, subject |-> <<trip1>>, text |-> TRUE,
             parts |-> <<[id |-> letter1, kind |-> "mail", mail |-> [id |-> letter1, parts |-> <<>>, text |-> TRUE]]>>]) @@
  (zip1  :> [form |-> FALSE, entries |-> <<Piece(pdf1, "pdf"), Piece(photo1, "photo"), Piece(letter2, "pdf")>>]) @@
  (form1 :> [form |-> TRUE, entries |-> <<>>])

Symmetric == Permutations(Receipt) \cup Permutations(Case)

VARIABLE part

CasesInit == part \in {"cases", "mail"} /\ Init /\ MailInit
CasesNext ==
  /\ UNCHANGED part
  /\ \/ part = "cases" /\ Next     /\ UNCHANGED mailVars
     \/ part = "mail"  /\ MailNext /\ UNCHANGED vars

CasesSpec == CasesInit /\ [][CasesNext]_<<part, vars, mailVars>>
=============================================================================
