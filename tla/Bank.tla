-------------------------------- MODULE Bank --------------------------------
(***************************************************************************)
(* The reconciliation of bank statement lines with payments and paid       *)
(* expenses (bank_* endpoints and payment_delete of views.py).  It posts   *)
(* nothing: a line points at one record of its own signed amount.          *)
(*                                                                         *)
(* The page is rendered in one request and posts a choice for each line,   *)
(* also for those that were matched or added since.                        *)
(***************************************************************************)
EXTENDS Requests, FiniteSets, FiniteSetsExt

CONSTANTS
  BankLines, Records,
  Payments,      \* the records that are payments; the others are expenses
  SignedAmount,  \* Records -> what the bank statement would show
  Amounts,       \* bound: what lines of the statement may show
  NoRecord

ASSUME BankAssumption == Payments \subseteq Records /\ NoRecord \notin Records

VARIABLES
  lineAmount,  \* lines of the statement so far -> amount
  matched,     \* and -> matched_payment or matched_expense, or NoRecord
  onFile,      \* records: "none", "posted" or "deleted"
  marked,      \* payments with is_reconciled
  doubled      \* history: one save or one auto-match gave a record to two lines

bank == <<lineAmount, matched, onFile, marked, doubled>>

InitBank ==
  /\ lineAmount = <<>> /\ matched = <<>>
  /\ onFile = [r \in Records |-> "none"]
  /\ marked = {} /\ doubled = FALSE

-----------------------------------------------------------------------------
OnStatement == DOMAIN lineAmount
Unreconciled == {l \in OnStatement : matched[l] = NoRecord}

(* Slip: a record is offered whatever other lines it is matched to. *)
CandidatesTaken(l) == {r \in Records : onFile[r] = "posted" /\ SignedAmount[r] = lineAmount[l]}

(* _recon_rows: the records of the line's amount that no other line is matched to. *)
Candidates(l) ==
  {r \in Records : /\ onFile[r] = "posted" /\ SignedAmount[r] = lineAmount[l]
                   /\ \A k \in OnStatement : matched[k] = r => k = l}

(* _apply_match, line by line. *)
Apply(picks) ==
  /\ matched' = [l \in OnStatement |-> IF l \in DOMAIN picks THEN picks[l] ELSE matched[l]]
  /\ marked' = marked \cup {picks[l] : l \in {k \in DOMAIN picks : picks[k] \in Payments}}
  /\ doubled' = (doubled \/ \E k, l \in DOMAIN picks : k # l /\ picks[k] = picks[l] /\ picks[k] # NoRecord)
  /\ UNCHANGED <<lineAmount, onFile>>

-----------------------------------------------------------------------------
(* bank_transaction_add, or a row of bank_transaction_import. *)
AddLine(l, amount) ==
  /\ l \notin OnStatement /\ Start
  /\ lineAmount' = [k \in OnStatement \cup {l} |-> IF k = l THEN amount ELSE lineAmount[k]]
  /\ matched' = [k \in OnStatement \cup {l} |-> IF k = l THEN NoRecord ELSE matched[k]]
  /\ UNCHANGED <<onFile, marked, doubled, req>>

(* A payment is posted, or an expense that is paid. *)
PostRecord(r) ==
  /\ onFile[r] = "none" /\ Start
  /\ onFile' = [onFile EXCEPT ![r] = "posted"]
  /\ UNCHANGED <<lineAmount, matched, marked, doubled, req>>

(* payment_delete: the row is flagged, and a line matched to it stays so. *)
DeletePayment(r) ==
  /\ r \in Payments /\ onFile[r] = "posted" /\ Start
  /\ onFile' = [onFile EXCEPT ![r] = "deleted"]
  /\ UNCHANGED <<lineAmount, matched, marked, doubled, req>>

(* The page shows each line with its candidates, its match selected; a match that is no
   candidate any more is not in the list. *)
OpenReconciliation(c) ==
  /\ req[c] = Idle /\ OnStatement # {} /\ Start
  /\ req' = [req EXCEPT ![c] = [l \in OnStatement |-> Candidates(l)]]
  /\ UNCHANGED bank

(* What the user may send: for each line he was shown a candidate or nothing, and nothing
   for the others. *)
Sent(page) == {f \in [OnStatement -> Records \cup {NoRecord}] :
  \A l \in OnStatement : f[l] # NoRecord => l \in DOMAIN page /\ f[l] \in page[l]}

SaveReconciliation(c) ==
  /\ req[c] # Idle
  /\ \E picks \in Sent(req[c]) : Apply(picks)
  /\ req' = [req EXCEPT ![c] = Idle]
  /\ UNCHANGED overlaps

(* "auto": the candidates of every line are listed before the first is matched. *)
AutoMatch ==
  /\ Start
  /\ Apply([l \in {k \in Unreconciled : Cardinality(Candidates(k)) = 1}
              |-> CHOOSE r \in Candidates(l) : TRUE])
  /\ UNCHANGED req

-----------------------------------------------------------------------------
(* A line is matched to a record of its amount, and unless one save or one auto-match gave
   a record to two equal lines, no record is matched to two lines, however old the pages
   that are saved: what is cleared on the statement is what was booked. *)
LinesMatchOnce ==
  /\ \A l \in OnStatement : matched[l] # NoRecord => SignedAmount[matched[l]] = lineAmount[l]
  /\ ~doubled =>
       \A k, l \in OnStatement : matched[k] = matched[l] /\ matched[k] # NoRecord => k = l
=============================================================================
