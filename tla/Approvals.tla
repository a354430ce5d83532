----------------------------- MODULE Approvals ------------------------------
(***************************************************************************)
(* Documents somebody has to approve and what is made of them: purchase    *)
(* requisitions become purchase orders, access requests become accounts,   *)
(* expenses become journals and so part of a VAT return (the requisition_*, *)
(* access_request_*, expense_* and vat_* endpoints of views.py over        *)
(* services/gl.py and services/vat.py).                                    *)
(*                                                                         *)
(* Of the documents of a VAT return only expenses appear; invoices, bills  *)
(* and credit notes enter it the same way, by their status and date.       *)
(***************************************************************************)
EXTENDS Requests, FiniteSets, Functions

CONSTANTS
  Requisitions, AccessRequests, Expenses,
  OverThreshold,  \* expenses at or above expense_approval_threshold
  Periods,        \* the periods VAT returns are made for
  Period,         \* Expenses -> the period of its date
  Vat             \* Expenses -> its reclaimable VAT

Docs == Requisitions \cup AccessRequests \cup Expenses

ASSUME DocumentAssumption ==
  /\ Requisitions \cap AccessRequests = {} /\ Expenses \cap (Requisitions \cup AccessRequests) = {}
  /\ Period \in [Expenses -> Periods] /\ Vat \in [Expenses -> Nat] /\ IsFiniteSet(Expenses)

VARIABLES
  doc,       \* Docs -> its status
  made,      \* Docs -> how many orders, accounts or journals were made of it
  approved,  \* history: the requisitions that somebody approved
  ret        \* Periods -> VatReturn: status and reclaimed VAT

documents == <<doc, made, approved, ret>>

InitDocuments ==
  /\ doc = [d \in Docs |-> "NONE"]
  /\ made = [d \in Docs |-> 0]
  /\ approved = {}
  /\ ret = [p \in Periods |-> [status |-> "NONE", reclaimed |-> 0]]

-----------------------------------------------------------------------------
(* What each endpoint asks of the status it reads, the status it writes, and whether
   it makes the order, account or journal. *)
SubmitRequisition  == [from |-> {"DRAFT"}, to |-> "SUBMITTED", makes |-> FALSE]
ApproveRequisition == [from |-> {"SUBMITTED"}, to |-> "APPROVED", makes |-> FALSE]
RejectRequisition  == [from |-> {"SUBMITTED"}, to |-> "REJECTED", makes |-> FALSE]
CancelRequisition  == [from |-> {"DRAFT", "SUBMITTED", "APPROVED", "REJECTED"}, to |-> "CANCELLED",
                       makes |-> FALSE]

ConvertRequisition == [from |-> {"APPROVED"}, to |-> "CONVERTED", makes |-> TRUE]

ApproveAccess == [from |-> {"PENDING"}, to |-> "APPROVED", makes |-> TRUE]
RejectAccess  == [from |-> {"PENDING"}, to |-> "REJECTED", makes |-> FALSE]

SubmitExpense  == [from |-> {"DRAFT"}, to |-> "SUBMITTED", makes |-> FALSE]
ApproveExpense == [from |-> {"SUBMITTED"}, to |-> "POSTED", makes |-> TRUE]
RejectExpense  == [from |-> {"SUBMITTED"}, to |-> "REJECTED", makes |-> FALSE]
PostExpense    == [from |-> {"DRAFT", "SUBMITTED", "REJECTED"}, to |-> "POSTED", makes |-> TRUE]

Steps(d) ==
  IF d \in Requisitions
    THEN {SubmitRequisition, ApproveRequisition, RejectRequisition, CancelRequisition,
          ConvertRequisition}
  ELSE IF d \in AccessRequests THEN {ApproveAccess, RejectAccess}
  ELSE {SubmitExpense, ApproveExpense, RejectExpense, PostExpense}

(* The status the form's action gives a new row; an approver may post an expense below
   the threshold at once. *)
NewRequisition == {"DRAFT", "SUBMITTED"}
NewAccessRequest == {"PENDING"}
NewExpense(e) == {"DRAFT", "SUBMITTED"} \cup IF e \in OverThreshold THEN {} ELSE {"POSTED"}

FirstStatus(d) ==
  IF d \in Requisitions THEN NewRequisition
  ELSE IF d \in AccessRequests THEN NewAccessRequest ELSE NewExpense(d)

Create(d, status) ==
  /\ doc[d] = "NONE"
  /\ doc' = [doc EXCEPT ![d] = status]
  /\ made' = [made EXCEPT ![d] = IF status = "POSTED" THEN 1 ELSE 0]
  /\ Start
  /\ UNCHANGED <<approved, ret, req>>

(* An endpoint reads a document and finds its status good ... *)
Load(c, d, s) ==
  /\ req[c] = Idle /\ s \in Steps(d) /\ doc[d] \in s.from
  /\ req' = [req EXCEPT ![c] = [doc |-> d, step |-> s]]
  /\ Start
  /\ UNCHANGED documents

(* The journals of one reference are one, by a constraint of the table; orders and
   accounts get a number or a name nobody has. *)
Refused(r) == r.doc \in Expenses /\ r.step.makes /\ made[r.doc] > 0

(* Slip: the status is left as it was when the order is made. *)
CommitForgetful(c) ==
  /\ req[c] # Idle
  /\ LET r == req[c]
     IN  IF Refused(r) THEN UNCHANGED documents
         ELSE /\ doc' = IF r.step.makes THEN doc ELSE [doc EXCEPT ![r.doc] = r.step.to]
              /\ made' = [made EXCEPT ![r.doc] = @ + IF r.step.makes THEN 1 ELSE 0]
              /\ approved' = IF r.step = ApproveRequisition THEN approved \cup {r.doc} ELSE approved
              /\ UNCHANGED ret
  /\ req' = [req EXCEPT ![c] = Idle]
  /\ UNCHANGED overlaps

(* ... and makes and writes what it decided, or is rolled back. *)
Commit(c) ==
  /\ req[c] # Idle
  /\ LET r == req[c]
     IN  IF Refused(r) THEN UNCHANGED documents
         ELSE /\ doc' = [doc EXCEPT ![r.doc] = r.step.to]
              /\ made' = [made EXCEPT ![r.doc] = @ + IF r.step.makes THEN 1 ELSE 0]
              /\ approved' = IF r.step = ApproveRequisition THEN approved \cup {r.doc} ELSE approved
              /\ UNCHANGED ret
  /\ req' = [req EXCEPT ![c] = Idle]
  /\ UNCHANGED overlaps

-----------------------------------------------------------------------------
(* Slip: what waits for approval is reclaimed already. *)
ReclaimedEarly(p) ==
  SumFunction([e \in Expenses |->
                 IF Period[e] = p /\ doc[e] \in {"SUBMITTED", "POSTED"} THEN Vat[e] ELSE 0])

(* compute_vat_return, box 4: the VAT of the period's posted expenses. *)
Reclaimed(p) ==
  SumFunction([e \in Expenses |-> IF Period[e] = p /\ doc[e] = "POSTED" THEN Vat[e] ELSE 0])

(* vat_save: the figures of the period, computed again whatever the status of the
   return that is there. *)
SaveReturn(p) ==
  /\ ret' = [ret EXCEPT ![p] =
       [status |-> IF @.status = "NONE" THEN "DRAFT" ELSE @.status, reclaimed |-> Reclaimed(p)]]
  /\ UNCHANGED <<doc, made, approved, req, overlaps>>

(* vat_submit: the figures as they were saved. *)
SubmitReturn(p) ==
  /\ ret[p].status = "DRAFT"
  /\ ret' = [ret EXCEPT ![p].status = "SUBMITTED"]
  /\ UNCHANGED <<doc, made, approved, req, overlaps>>

-----------------------------------------------------------------------------
Finished(d) == doc[d] = IF d \in Requisitions THEN "CONVERTED"
                        ELSE IF d \in AccessRequests THEN "APPROVED" ELSE "POSTED"

(* One thing is made of a document, when it is converted, approved or posted and not
   otherwise: requests for one document at a time never order, provision or book it
   twice, or leave it looking undecided.  Whatever the requests of submitters, approvers
   and buyers do, an expense is never booked twice and no purchase order comes of a
   requisition nobody approved. *)
OneApprovedResult ==
  \A d \in Docs :
    /\ calm => made[d] = IF Finished(d) THEN 1 ELSE 0
    /\ d \in Expenses => made[d] <= 1
    /\ d \in Requisitions /\ made[d] > 0 => d \in approved

(* What the ledger holds on the VAT input account for the expenses of a period. *)
LedgerVat(p) == SumFunction([e \in Expenses |-> IF Period[e] = p THEN made[e] * Vat[e] ELSE 0])

(* A VAT return is computed from the documents and not from the ledger; when it is
   saved it reclaims what the ledger holds, while no decisions on an expense overlap. *)
ReturnFollowsLedger ==
  [][\A p \in Periods :
       (calm /\ ret'[p].reclaimed # ret[p].reclaimed) => ret'[p].reclaimed = LedgerVat(p)]_documents
=============================================================================
