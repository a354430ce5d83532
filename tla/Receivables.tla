------------------------------ MODULE Receivables ------------------------------
(***************************************************************************)
(* The sales ledger: customer invoices, receipts, refunds and credit notes *)
(* of one customer, with the journals they post (the ar_*, receipt_*,      *)
(* refund_*, credit_note_* and payment_* endpoints of views.py over        *)
(* services/gl.py).                                                        *)
(*                                                                         *)
(* An endpoint of an invoice reads the row and makes its checks, then      *)
(* writes: a request is a Load, then a Commit that uses what was loaded    *)
(* (READ COMMITTED, no row lock).  The window between them is the widest   *)
(* the code allows.  Credit notes and payment deletes, whose writes are    *)
(* fenced by the journal constraint, are one step.  A request may fail for *)
(* any other reason (stock refused, a lost connection): it is rolled back. *)
(*                                                                         *)
(* Amounts are whole; a stocked invoice is one unit of goods.  Invoices    *)
(* are numbered in date order, the order receipts are allocated in.        *)
(***************************************************************************)
EXTENDS Integers, FiniteSets, Functions

CONSTANTS
  Invoices, Payments, Notes, Clients,
  Stocked,       \* invoices with stocked product lines
  Totals,        \* totals an invoice may have
  Amounts,       \* amounts of receipts and credit notes
  CreditLimit,   \* Customer.credit_limit, 0 for none
  Detached,      \* a credit note or payment with no invoice
  Idle,          \* a client with no request under way
  MaxOverlaps    \* bound: requests that start while another is under way

ASSUME NumberAssumption == Invoices \subseteq Nat /\ Stocked \subseteq Invoices
ASSUME AmountAssumption ==
  Totals \subseteq Nat \ {0} /\ Amounts \subseteq Nat \ {0} /\ CreditLimit \in Nat
ASSUME BoundAssumption == MaxOverlaps \in Nat
ASSUME DetachedAssumption == Detached \notin Invoices
ASSUME FiniteAssumption == IsFiniteSet(Invoices) /\ IsFiniteSet(Payments) /\ IsFiniteSet(Notes)

VARIABLES
  inv,   \* Invoices -> CustomerInvoice: status, total, deleted
  refs,  \* Invoices -> the references its journals and stock movements carry
  je,    \* Invoices -> the amount of its AR_INVOICE journal
  ar,    \* Invoices -> what its journals left on the receivables account
  out,   \* Invoices -> its goods that left and did not come back
  pay,   \* Payments -> Payment and its allocations
  note,  \* Notes -> CreditNote
  req,   \* Clients -> the request under way
  overlaps   \* history: requests that started while another was under way

vars == <<inv, refs, je, ar, out, pay, note, req, overlaps>>
ledger == <<refs, je, ar, out>>

Statuses == {"NONE", "DRAFT", "ISSUED", "SENT", "PAID", "CANCELLED", "REFUNDED"}
IssuedStates == {"ISSUED", "SENT", "PAID"}
Refs == {"AR_INVOICE", "AR_INVOICE_CANCEL", "COGS", "COGS_CANCEL"}

CustomerInvoice == [status : Statuses, total : Nat, deleted : BOOLEAN]
Payment == [status : {"NONE", "POSTED", "DELETED"}, direction : {"RECEIPT", "REFUND"},
            amount : Nat, alloc : [Invoices -> Nat]]
CreditNote == [status : {"NONE", "DRAFT", "POSTED"}, invoice : Invoices \cup {Detached},
               amount : Nat]

NoAlloc == [i \in Invoices |-> 0]

Init ==
  /\ inv = [i \in Invoices |-> [status |-> "NONE", total |-> 0, deleted |-> FALSE]]
  /\ refs = [i \in Invoices |-> {}]
  /\ je = [i \in Invoices |-> 0]
  /\ ar = [i \in Invoices |-> 0]
  /\ out = [i \in Invoices |-> 0]
  /\ pay = [p \in Payments |-> [status |-> "NONE", direction |-> "RECEIPT", amount |-> 0,
                                alloc |-> NoAlloc]]
  /\ note = [n \in Notes |-> [status |-> "NONE", invoice |-> Detached, amount |-> 0]]
  /\ req = [c \in Clients |-> Idle]
  /\ overlaps = 0

-----------------------------------------------------------------------------
(* What is derived from the rows: amount_paid, credit_applied, outstanding and
   the customer's outstanding_balance.  Deleted rows are out of its sight. *)
Exists(i) == inv[i].status # "NONE" /\ ~inv[i].deleted
Paid(i) == SumFunction([p \in Payments |-> pay[p].alloc[i]])
Credited(i) ==
  SumFunction([n \in Notes |->
    IF note[n].status = "POSTED" /\ note[n].invoice = i THEN note[n].amount ELSE 0])
Outstanding(i) == inv[i].total - Paid(i) - Credited(i)

Owed(i) == IF Exists(i) /\ inv[i].status \in IssuedStates /\ Outstanding(i) > 0
             THEN Outstanding(i) ELSE 0
Exposure == SumFunction([i \in Invoices |-> Owed(i)])

(* Slip: the new invoice is not added to what is already owed. *)
CreditOkNow(additional) == CreditLimit > 0 => Exposure <= CreditLimit

(* Customer.credit_status: the new receivable must fit under the limit. *)
CreditOk(additional) == CreditLimit > 0 => Exposure + additional <= CreditLimit

(* The open invoices a receipt is allocated to, and what each still wants. *)
Wanted(i) == IF inv[i].status = "ISSUED" THEN Owed(i) ELSE 0

Least(a, b) == IF a <= b THEN a ELSE b

Before(i) == SumFunction([j \in Invoices |-> IF j < i THEN Wanted(j) ELSE 0])

(* _allocate_fifo: oldest first, each what it wants of what is left. *)
Share(amount) ==
  [i \in Invoices |->
     LET left == amount - Before(i) IN IF left > 0 THEN Least(Wanted(i), left) ELSE 0]

-----------------------------------------------------------------------------
(* A request starts, perhaps while others are under way. *)
Start ==
  IF \A c \in Clients : req[c] = Idle
    THEN UNCHANGED overlaps
    ELSE overlaps < MaxOverlaps /\ overlaps' = overlaps + 1

calm == overlaps = 0

(* post_customer_invoice returns the journal of an ISSUED or PAID invoice. *)
AlreadyPosted(i, seen) == seen \in {"ISSUED", "PAID"} /\ "AR_INVOICE" \in refs[i]

(* The journal, one by the unique constraint, then the goods and their COGS, and the
   invoice saved whole with the status it ends with. *)
Book(i, total, status) ==
  /\ "AR_INVOICE" \notin refs[i]
  /\ refs' = [refs EXCEPT ![i] = @ \cup {"AR_INVOICE"} \cup
                                 (IF i \in Stocked THEN {"COGS"} ELSE {})]
  /\ je' = [je EXCEPT ![i] = total]
  /\ ar' = [ar EXCEPT ![i] = @ + total]
  /\ out' = [out EXCEPT ![i] = @ + IF i \in Stocked /\ "COGS" \notin refs[i] THEN 1 ELSE 0]
  /\ inv' = [inv EXCEPT ![i] = [status |-> status, total |-> total, deleted |-> FALSE]]

(* post_customer_invoice. *)
Post(i, seen, total, status) ==
  IF AlreadyPosted(i, seen) THEN UNCHANGED <<inv, ledger>> ELSE Book(i, total, status)

-----------------------------------------------------------------------------
(* ar_invoice_create, _invoice_from_lines: a draft, issued at once when the form
   asks for it and the customer has the credit. *)
Create(i, total, issue) ==
  /\ inv[i].status = "NONE"
  /\ \A j \in Invoices : j < i => inv[j].status # "NONE"
  /\ IF issue /\ CreditOk(total)
       THEN Post(i, "DRAFT", total, "ISSUED")
       ELSE /\ inv' = [inv EXCEPT ![i].status = "DRAFT", ![i].total = total]
            /\ UNCHANGED ledger
  /\ Start
  /\ UNCHANGED <<pay, note, req>>

(* Slip: the payments against the invoice are not looked at. *)
AdmitsCancelOfPaid(op, i) ==
  CASE op = "issue"  -> CreditOk(inv[i].total)
    [] op = "send"   -> inv[i].status = "DRAFT" => CreditOk(inv[i].total)
    [] op = "refund" -> Paid(i) > 0
    [] op \in {"edit", "delete"} -> inv[i].status = "DRAFT"
    [] OTHER -> TRUE

(* What each endpoint checks of the invoice it read. *)
Admits(op, i) ==
  CASE op = "issue"  -> CreditOk(inv[i].total)
    [] op = "send"   -> inv[i].status = "DRAFT" => CreditOk(inv[i].total)
    [] op = "cancel" -> Paid(i) = 0
    [] op = "refund" -> Paid(i) > 0
    [] op \in {"edit", "delete"} -> inv[i].status = "DRAFT"

Ops == {"issue", "send", "cancel", "refund", "edit", "delete"}

(* A request reads the invoice; form is the total an edit will save or what a
   refund will pay, and issue says whether an edit issues too. *)
Load(c, op, i, form, issue) ==
  /\ req[c] = Idle
  /\ Exists(i)
  /\ Admits(op, i)
  /\ req' = [req EXCEPT ![c] = [op |-> op, inv |-> i, seen |-> inv[i].status, form |-> form,
                                issue |-> issue, share |-> NoAlloc]]
  /\ Start
  /\ UNCHANGED <<inv, ledger, pay, note>>

(* receipt_create up to the allocations: it reads the open invoices. *)
LoadReceipt(c, amount) ==
  /\ req[c] = Idle
  /\ req' = [req EXCEPT ![c] = [op |-> "receipt", inv |-> Detached, seen |-> "NONE",
                                form |-> amount, issue |-> FALSE, share |-> Share(amount)]]
  /\ Start
  /\ UNCHANGED <<inv, ledger, pay, note>>

Answer(c) == req' = [req EXCEPT ![c] = Idle] /\ UNCHANGED overlaps

(* ar_invoice_issue. *)
Issue(c) ==
  LET r == req[c]
  IN  /\ r # Idle /\ r.op = "issue"
      /\ Post(r.inv, r.seen, inv[r.inv].total, "ISSUED")
      /\ Answer(c)
      /\ UNCHANGED <<pay, note>>

(* ar_invoice_send: a draft is posted first; SENT whatever it was. *)
Send(c) ==
  LET r == req[c]
  IN  /\ r # Idle /\ r.op = "send"
      /\ IF r.seen = "DRAFT"
           THEN Post(r.inv, r.seen, inv[r.inv].total, "SENT")
           ELSE inv' = [inv EXCEPT ![r.inv].status = "SENT"] /\ UNCHANGED ledger
      /\ Answer(c)
      /\ UNCHANGED <<pay, note>>

(* ar_invoice_edit: the row is saved with the status it was loaded with, and
   posted, without a credit check, when the form says issue. *)
Edit(c) ==
  LET r == req[c]
  IN  /\ r # Idle /\ r.op = "edit"
      /\ IF r.issue
           THEN Post(r.inv, r.seen, r.form, "ISSUED")
           ELSE /\ inv' = [inv EXCEPT ![r.inv] = [status |-> r.seen, total |-> r.form,
                                                  deleted |-> FALSE]]
                /\ UNCHANGED ledger
      /\ Answer(c)
      /\ UNCHANGED <<pay, note>>

(* ar_invoice_delete: flagged, not removed. *)
Delete(c) ==
  LET r == req[c]
  IN  /\ r # Idle /\ r.op = "delete"
      /\ inv' = [inv EXCEPT ![r.inv].deleted = TRUE]
      /\ Answer(c)
      /\ UNCHANGED <<ledger, pay, note>>

(* Slip: the goods stay out. *)
WriteBackMoneyOnly(i) ==
  /\ "AR_INVOICE_CANCEL" \notin refs[i]
  /\ refs' = [refs EXCEPT ![i] = @ \cup {"AR_INVOICE_CANCEL"}]
  /\ ar' = [ar EXCEPT ![i] = @ - je[i]]
  /\ UNCHANGED <<je, out>>

(* The reversing journal, once by the constraint, and reverse_invoice_cogs: the
   COGS journal and the goods come back. *)
WriteBack(i) ==
  /\ "AR_INVOICE_CANCEL" \notin refs[i]
  /\ refs' = [refs EXCEPT ![i] = @ \cup {"AR_INVOICE_CANCEL"} \cup
                                 (IF "COGS" \in refs[i] THEN {"COGS_CANCEL"} ELSE {})]
  /\ ar' = [ar EXCEPT ![i] = @ - je[i]]
  /\ out' = [out EXCEPT ![i] = @ - IF "COGS" \in refs[i] THEN 1 ELSE 0]
  /\ UNCHANGED je

(* ar_invoice_cancel. *)
Cancel(c) ==
  LET r == req[c]
  IN  /\ r # Idle /\ r.op = "cancel"
      /\ IF "AR_INVOICE" \in refs[r.inv] /\ r.seen \in IssuedStates
           THEN WriteBack(r.inv)
           ELSE UNCHANGED ledger
      /\ inv' = [inv EXCEPT ![r.inv].status = "CANCELLED"]
      /\ Answer(c)
      /\ UNCHANGED <<pay, note>>

-----------------------------------------------------------------------------
(* ar_invoice_refund: what is paid on the invoice goes back as a refund. *)
Refund(c, p) ==
  LET r == req[c]
  IN  /\ r # Idle /\ r.op = "refund"
      /\ pay[p].status = "NONE"
      /\ pay' = [pay EXCEPT ![p].status = "POSTED", ![p].direction = "REFUND",
                            ![p].amount = r.form]
      /\ inv' = [inv EXCEPT ![r.inv].status = "REFUNDED"]
      /\ Answer(c)
      /\ UNCHANGED <<ledger, note>>

(* receipt_create, its writes: the allocations it worked out, then post_payment. *)
Receipt(c, p) ==
  LET r == req[c]
  IN  /\ r # Idle /\ r.op = "receipt"
      /\ pay[p].status = "NONE"
      /\ pay' = [pay EXCEPT ![p] = [status |-> "POSTED", direction |-> "RECEIPT",
                                    amount |-> r.form, alloc |-> r.share]]
      /\ UNCHANGED note
      /\ inv' = [i \in Invoices |->
                   IF r.share[i] > 0 /\ Outstanding(i) <= r.share[i]
                     THEN [inv[i] EXCEPT !.status = "PAID"] ELSE inv[i]]
      /\ Answer(c)
      /\ UNCHANGED ledger

(* refund_create: a refund of an amount typed in. *)
RefundCustomer(p, amount) ==
  /\ pay[p].status = "NONE"
  /\ pay' = [pay EXCEPT ![p].status = "POSTED", ![p].direction = "REFUND",
                        ![p].amount = amount]
  /\ Start
  /\ UNCHANGED <<inv, ledger, note, req>>

(* Slip: the invoices the payment settled stay PAID. *)
ReopenedNone(p) == inv

(* PAID invoices of the payment's allocations are SENT again. *)
Reopened(p) ==
  [i \in Invoices |-> IF pay[p].alloc[i] > 0 /\ inv[i].status = "PAID"
                        THEN [inv[i] EXCEPT !.status = "SENT"] ELSE inv[i]]

(* payment_delete: invoices reopened, allocations dropped, journal reversed. *)
DeletePayment(p) ==
  /\ pay[p].status = "POSTED"
  /\ inv' = Reopened(p)
  /\ pay' = [pay EXCEPT ![p].status = "DELETED", ![p].alloc = NoAlloc]
  /\ Start
  /\ UNCHANGED <<ledger, note, req>>

(* credit_note_create without posting. *)
CreateNote(n, i, amount) ==
  /\ note[n].status = "NONE"
  /\ i # Detached => Exists(i)
  /\ note' = [note EXCEPT ![n] = [status |-> "DRAFT", invoice |-> i, amount |-> amount]]
  /\ Start
  /\ UNCHANGED <<inv, ledger, pay, req>>

(* credit_note_post: a linked invoice nothing is due on becomes PAID. *)
PostNote(n) ==
  LET i == note[n].invoice
  IN  /\ note[n].status = "DRAFT"
      /\ note' = [note EXCEPT ![n].status = "POSTED"]
      /\ inv' = IF i # Detached /\ Outstanding(i) <= note[n].amount
                  THEN [inv EXCEPT ![i].status = "PAID"] ELSE inv
      /\ Start
      /\ UNCHANGED <<ledger, pay, req>>

(* A request fails and is rolled back. *)
Fail(c) ==
  /\ req[c] # Idle
  /\ Answer(c)
  /\ UNCHANGED <<inv, ledger, pay, note>>

Next ==
  \/ \E i \in Invoices, t \in Totals, b \in BOOLEAN : Create(i, t, b)
  \/ \E c \in Clients, i \in Invoices, op \in Ops \ {"edit"} : Load(c, op, i, Paid(i), FALSE)
  \/ \E c \in Clients, i \in Invoices, t \in Totals, b \in BOOLEAN : Load(c, "edit", i, t, b)
  \/ \E c \in Clients, a \in Amounts : LoadReceipt(c, a)
  \/ \E c \in Clients :
       \/ Issue(c) \/ Send(c) \/ Edit(c) \/ Delete(c) \/ Cancel(c) \/ Fail(c)
       \/ \E p \in Payments : Refund(c, p) \/ Receipt(c, p)
  \/ \E p \in Payments, a \in Amounts : RefundCustomer(p, a)
  \/ \E p \in Payments : DeletePayment(p)
  \/ \E n \in Notes, i \in Invoices \cup {Detached}, a \in Amounts : CreateNote(n, i, a)
  \/ \E n \in Notes : PostNote(n)

Spec == Init /\ [][Next]_vars

-----------------------------------------------------------------------------
Request ==
  [op : Ops \cup {"receipt"}, inv : Invoices \cup {Detached}, seen : Statuses,
   form : Nat, issue : BOOLEAN, share : [Invoices -> Nat]]

(* Every variable keeps its type. *)
TypeOK ==
  /\ inv \in [Invoices -> CustomerInvoice]
  /\ refs \in [Invoices -> SUBSET Refs]
  /\ je \in [Invoices -> Nat] /\ ar \in [Invoices -> Int] /\ out \in [Invoices -> Int]
  /\ pay \in [Payments -> Payment]
  /\ note \in [Notes -> CreditNote]
  /\ req \in [Clients -> Request \cup {Idle}]
  /\ overlaps \in 0 .. MaxOverlaps

(* Whatever requests overlap, the goods of a stocked invoice are out exactly
   while its receivable is on the ledger: neither leaves nor comes back twice,
   nor one without the other (_post_invoice_cogs, reverse_invoice_cogs). *)
GoodsFollowTheLedger ==
  \A i \in Invoices :
    /\ ar[i] \in {0, je[i]}
    /\ out[i] = IF i \in Stocked /\ ar[i] # 0 THEN 1 ELSE 0

(* While requests do not overlap, a PAID invoice has nothing due: neither a
   receipt, a credit note nor the delete of one of several payments leaves an
   invoice PAID that is owed (post_payment, post_credit_note, payment_delete). *)
PaidIsSettled ==
  calm => \A i \in Invoices : inv[i].status = "PAID" => Outstanding(i) <= 0

(* While requests do not overlap, an invoice booked by the issue, send and
   create screens leaves the customer within the credit limit, whatever was
   credited, refunded or reopened before (credit_status; the edit screen does
   not ask). *)
BookedWithinCredit ==
  [][calm' /\ CreditLimit > 0
      => \A i \in Invoices :
           ar'[i] > ar[i] /\ (\A c \in Clients : req[c] # Idle => req[c].op # "edit")
             => Exposure' <= CreditLimit]_vars

(* The sales ledger keeps the promise of OpenItem: an invoice is booked once,
   takes money only while it is open and up to what was booked, and is written
   back at most once, with no money on it. *)
Phase(i) ==
  IF "AR_INVOICE" \notin refs[i] THEN "new"
  ELSE IF "AR_INVOICE_CANCEL" \notin refs[i] THEN "open" ELSE "closed"

Item == INSTANCE OpenItem WITH phase <- [i \in Invoices |-> Phase(i)],
                               due <- je,
                               paid <- [i \in Invoices |-> Paid(i)]

ItemSpec == Item!Spec
=============================================================================
