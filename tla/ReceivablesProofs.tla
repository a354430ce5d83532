--------------------------- MODULE ReceivablesProofs ---------------------------
(***************************************************************************)
(* Theorems about Receivables, for any number of invoices, payments,       *)
(* credit notes and overlapping requests.                                  *)
(*                                                                         *)
(* IInv holds whatever overlaps: the rows are typed, an invoice once       *)
(* written keeps a total, and its journals and goods go through three      *)
(* phases together.  CalmInv holds while no request has overlapped         *)
(* another: one is under way at most, what it read still stands, a PAID    *)
(* invoice has nothing due and an ISSUED one is booked at its total.       *)
(* Moves says what every step does to the rows under both; the refinement  *)
(* of OpenItem is read off it.                                             *)
(*                                                                         *)
(* The last part is about Schedules, a specification of its own: recurring *)
(* invoices and reminders, for any dates, caps and intervals, any number   *)
(* of jobs and of passes that fail or overlap.                             *)
(***************************************************************************)
EXTENDS Receivables, Schedules, SumTheorems, FiniteSetTheorems, TLAPS

(* The journals and the goods of an invoice go through three phases: not
   booked, booked, written back. *)
Phased(i) ==
  /\ "AR_INVOICE" \notin refs[i] => refs[i] = {} /\ je[i] = 0 /\ ar[i] = 0 /\ out[i] = 0
  /\ "AR_INVOICE" \in refs[i] => je[i] > 0 /\ ("COGS" \in refs[i] <=> i \in Stocked)
  /\ "AR_INVOICE" \in refs[i] /\ "AR_INVOICE_CANCEL" \notin refs[i] =>
       ar[i] = je[i] /\ out[i] = IF i \in Stocked THEN 1 ELSE 0
  /\ "AR_INVOICE_CANCEL" \in refs[i] => "AR_INVOICE" \in refs[i] /\ ar[i] = 0 /\ out[i] = 0

PhasesOK == \A i \in Invoices : Phased(i)

(* What is, or was, an invoice has a total. *)
Real(i) == i \in Invoices /\ inv[i].total > 0

(* A request under way is about invoices that exist. *)
Founded(r) ==
  IF r.op = "receipt" THEN \A i \in Invoices : r.share[i] > 0 => Real(i)
  ELSE Real(r.inv) /\ (r.op = "edit" => r.form > 0)

RowsOK ==
  /\ \A i \in Invoices : inv[i].status # "NONE" => Real(i)
  /\ \A n \in Notes : note[n].invoice # Detached => Real(note[n].invoice)
  /\ \A c \in Clients : req[c] # Idle => Founded(req[c])
  /\ \A p \in Payments : pay[p].status = "NONE" => pay[p].alloc = NoAlloc

IInv == TypeOK /\ RowsOK /\ PhasesOK

-----------------------------------------------------------------------------
(* The sums an invoice is judged by are numbers. *)
LEMMA SumsTyped ==
  ASSUME TypeOK, NEW i \in Invoices
  PROVE  Paid(i) \in Nat /\ Credited(i) \in Nat /\ Outstanding(i) \in Int /\ Owed(i) \in Nat
<1>1. Paid(i) \in Nat
  <2>1. [p \in Payments |-> pay[p].alloc[i]] \in [Payments -> Nat]
    BY DEF TypeOK, Payment
  <2> QED
    BY <2>1, SumNatural, FiniteAssumption DEF Paid
<1>2. Credited(i) \in Nat
  <2>1. [n \in Notes |-> IF note[n].status = "POSTED" /\ note[n].invoice = i
                           THEN note[n].amount ELSE 0] \in [Notes -> Nat]
    BY DEF TypeOK, CreditNote
  <2> QED
    BY <2>1, SumNatural, FiniteAssumption DEF Credited
<1>3. inv[i].total \in Nat
  BY DEF TypeOK, CustomerInvoice
<1>4. Outstanding(i) \in Int
  BY <1>1, <1>2, <1>3 DEF Outstanding
<1>5. Owed(i) \in Nat
  BY <1>4 DEF Owed
<1> QED
  BY <1>1, <1>2, <1>4, <1>5

(* A receipt gives an invoice no more than it wants, and only to those that want. *)
LEMMA ShareTyped ==
  ASSUME TypeOK, NEW amount \in Nat
  PROVE  /\ Share(amount) \in [Invoices -> Nat]
         /\ \A i \in Invoices : Share(amount)[i] <= Wanted(i)
<1>1. \A i \in Invoices : Wanted(i) \in Nat
  BY SumsTyped DEF Wanted
<1>2. ASSUME NEW i \in Invoices PROVE Before(i) \in Nat
  <2>1. [j \in Invoices |-> IF j < i THEN Wanted(j) ELSE 0] \in [Invoices -> Nat]
    BY <1>1
  <2> QED
    BY <2>1, SumNatural, FiniteAssumption DEF Before
<1>3. ASSUME NEW i \in Invoices
      PROVE  Share(amount)[i] \in Nat /\ Share(amount)[i] <= Wanted(i)
  <2> DEFINE left == amount - Before(i)
  <2>1. left \in Int /\ Wanted(i) \in Nat
    BY <1>1, <1>2
  <2>2. Share(amount)[i] = IF left > 0 THEN Least(Wanted(i), left) ELSE 0
    BY DEF Share
  <2> HIDE DEF left
  <2> QED
    BY <2>1, <2>2 DEF Least
<1>4. Share(amount) = [i \in Invoices |-> Share(amount)[i]]
  BY DEF Share
<1> QED
  BY <1>3, <1>4
-----------------------------------------------------------------------------
(* What a step may do to the invoices: rows stay rows, none loses its total, and
   one that gets a status has one. *)
Kept ==
  /\ inv' \in [Invoices -> CustomerInvoice]
  /\ \A i \in Invoices : inv[i].total > 0 => inv'[i].total > 0
  /\ \A i \in Invoices : inv'[i].status # "NONE" => inv'[i].total > 0

(* What it may do to the ledger. *)
LedgerTyped ==
  /\ refs' \in [Invoices -> SUBSET Refs]
  /\ je' \in [Invoices -> Nat] /\ ar' \in [Invoices -> Int] /\ out' \in [Invoices -> Int]

(* An invoice row written whole, or in part, with a total. *)
LEMMA RowWritten ==
  ASSUME TypeOK, RowsOK, NEW i \in Invoices, NEW row \in CustomerInvoice, row.total > 0,
         inv' = [inv EXCEPT ![i] = row]
  PROVE  Kept
<1>1. inv \in [Invoices -> CustomerInvoice]
  BY DEF TypeOK
<1>2. \A j \in Invoices : inv[j].status # "NONE" => inv[j].total > 0
  BY DEF RowsOK, Real
<1>3. inv'[i] = row /\ \A j \in Invoices \ {i} : inv'[j] = inv[j]
  BY <1>1
<1>4. inv' \in [Invoices -> CustomerInvoice]
  BY <1>1
<1> QED
  BY <1>2, <1>3, <1>4 DEF Kept

(* A step that writes no invoice keeps them all real. *)
LEMMA InvoicesUnchanged == ASSUME TypeOK, RowsOK, UNCHANGED inv PROVE Kept
  BY DEF Kept, TypeOK, RowsOK, Real

(* Writing the status of a real invoice. *)
LEMMA StatusWritten ==
  ASSUME TypeOK, RowsOK, NEW i, Real(i), NEW s \in Statuses,
         inv' = [inv EXCEPT ![i].status = s]
  PROVE  Kept
<1> DEFINE row == [inv[i] EXCEPT !.status = s]
<1>1. i \in Invoices /\ inv[i] \in CustomerInvoice /\ inv[i].total > 0
  BY DEF Real, TypeOK
<1>2. row \in CustomerInvoice /\ row.total > 0
  BY <1>1 DEF CustomerInvoice
<1>3. inv' = [inv EXCEPT ![i] = row]
  OBVIOUS
<1> HIDE DEF row
<1> QED
  BY <1>1, <1>2, <1>3, RowWritten

(* Booking an invoice: journals, goods and the row. *)
LEMMA BookKeeps ==
  ASSUME IInv, NEW i \in Invoices, NEW total \in Nat, total > 0, NEW s \in Statuses,
         Book(i, total, s)
  PROVE  Kept /\ LedgerTyped /\ PhasesOK'
<1> DEFINE row == [status |-> s, total |-> total, deleted |-> FALSE]
<1>1. row \in CustomerInvoice /\ row.total > 0 /\ inv' = [inv EXCEPT ![i] = row]
  BY DEF CustomerInvoice, Book
<1>2. Kept
  <2> HIDE DEF row
  <2> QED
    BY <1>1, RowWritten DEF IInv
<1>3. "AR_INVOICE" \notin refs[i] /\ refs[i] = {} /\ je[i] = 0 /\ ar[i] = 0 /\ out[i] = 0
  BY DEF Book, IInv, PhasesOK, Phased
<1> DEFINE marks == {"AR_INVOICE"} \cup (IF i \in Stocked THEN {"COGS"} ELSE {})
           gone == IF i \in Stocked THEN 1 ELSE 0
<1>4. /\ refs' = [refs EXCEPT ![i] = marks]
      /\ je' = [je EXCEPT ![i] = total]
      /\ ar' = [ar EXCEPT ![i] = total]
      /\ out' = [out EXCEPT ![i] = gone]
  <2>1. ar[i] + total = total /\ out[i] + gone = gone
    BY <1>3
  <2>2. refs[i] \cup {"AR_INVOICE"} \cup (IF i \in Stocked THEN {"COGS"} ELSE {}) = marks
    BY <1>3
  <2>3. "COGS" \notin refs[i]
    BY <1>3
  <2> QED
    BY <2>1, <2>2, <2>3 DEF Book
<1>5. /\ refs \in [Invoices -> SUBSET Refs] /\ je \in [Invoices -> Nat]
      /\ ar \in [Invoices -> Int] /\ out \in [Invoices -> Int]
  BY DEF IInv, TypeOK
<1>6. marks \in SUBSET Refs /\ gone \in Int
  BY DEF Refs
<1>7. "AR_INVOICE" \in marks /\ "AR_INVOICE_CANCEL" \notin marks /\ ("COGS" \in marks <=> i \in Stocked)
  OBVIOUS
<1>8. LedgerTyped
  <2> HIDE DEF marks, gone
  <2> QED
    BY <1>4, <1>5, <1>6 DEF LedgerTyped
<1>9. ASSUME NEW j \in Invoices PROVE Phased(j)'
  <2>1. CASE j = i
    <3>1. refs'[i] = marks /\ je'[i] = total /\ ar'[i] = total /\ out'[i] = gone
      BY <1>4, <1>5
    <3> QED
      BY <1>7, <2>1, <3>1 DEF Phased
  <2>2. CASE j # i
    <3>1. refs'[j] = refs[j] /\ je'[j] = je[j] /\ ar'[j] = ar[j] /\ out'[j] = out[j]
      BY <1>4, <1>5, <2>2
    <3>2. Phased(j)
      BY DEF IInv, PhasesOK
    <3> QED
      BY <3>1, <3>2 DEF Phased
  <2> QED
    BY <2>1, <2>2
<1> QED
  BY <1>2, <1>8, <1>9 DEF PhasesOK

(* Posting books the invoice or changes nothing. *)
LEMMA PostKeeps ==
  ASSUME IInv, NEW i \in Invoices, NEW seen, NEW total \in Nat, total > 0, NEW s \in Statuses,
         Post(i, seen, total, s)
  PROVE  Kept /\ LedgerTyped /\ PhasesOK'
<1>1. CASE Book(i, total, s)
  BY <1>1, BookKeeps
<1>2. CASE UNCHANGED <<inv, ledger>>
  BY <1>2, InvoicesUnchanged DEF IInv, ledger, LedgerTyped, TypeOK, PhasesOK, Phased
<1> QED
  BY <1>1, <1>2 DEF Post

(* Writing an invoice back. *)
LEMMA WriteBackKeeps ==
  ASSUME IInv, NEW i \in Invoices, "AR_INVOICE" \in refs[i], WriteBack(i)
  PROVE  LedgerTyped /\ PhasesOK'
<1> DEFINE more == {"AR_INVOICE_CANCEL"} \cup (IF "COGS" \in refs[i] THEN {"COGS_CANCEL"} ELSE {})
           back == IF "COGS" \in refs[i] THEN 1 ELSE 0
<1>1. /\ refs \in [Invoices -> SUBSET Refs] /\ je \in [Invoices -> Nat]
      /\ ar \in [Invoices -> Int] /\ out \in [Invoices -> Int]
  BY DEF IInv, TypeOK
<1>2. /\ "AR_INVOICE_CANCEL" \notin refs[i]
      /\ refs' = [refs EXCEPT ![i] = @ \cup more]
      /\ ar' = [ar EXCEPT ![i] = @ - je[i]]
      /\ out' = [out EXCEPT ![i] = @ - back]
      /\ je' = je
  BY DEF WriteBack
<1>3. je[i] > 0 /\ ar[i] = je[i] /\ out[i] = back /\ ("COGS" \in refs[i] <=> i \in Stocked)
  BY <1>2 DEF IInv, PhasesOK, Phased
<1>4. more \in SUBSET Refs /\ back \in Int /\ "AR_INVOICE_CANCEL" \in more /\ "COGS" \notin more
  BY DEF Refs
<1> HIDE DEF more, back
<1>5. refs'[i] = refs[i] \cup more /\ ar'[i] = 0 /\ out'[i] = 0
  BY <1>1, <1>2, <1>3, <1>4
<1>6. refs' \in [Invoices -> SUBSET Refs] /\ ar' \in [Invoices -> Int] /\ out' \in [Invoices -> Int]
  BY <1>1, <1>2, <1>4
<1>7. ASSUME NEW j \in Invoices PROVE Phased(j)'
  <2>1. CASE j = i
    BY <1>2, <1>3, <1>4, <1>5, <2>1 DEF Phased
  <2>2. CASE j # i
    <3>1. refs'[j] = refs[j] /\ je'[j] = je[j] /\ ar'[j] = ar[j] /\ out'[j] = out[j]
      BY <1>1, <1>2, <2>2
    <3>2. Phased(j)
      BY DEF IInv, PhasesOK
    <3> QED
      BY <3>1, <3>2 DEF Phased
  <2> QED
    BY <2>1, <2>2
<1> QED
  BY <1>1, <1>2, <1>6, <1>7 DEF LedgerTyped, PhasesOK
-----------------------------------------------------------------------------
(* The parts of the invariant a step must re-establish in the other tables. *)
NotesOK ==
  /\ note \in [Notes -> CreditNote]
  /\ \A n \in Notes : note[n].invoice # Detached => Real(note[n].invoice)
RequestsOK ==
  /\ req \in [Clients -> Request \cup {Idle}]
  /\ \A c \in Clients : req[c] # Idle => Founded(req[c])
PaymentsOK ==
  /\ pay \in [Payments -> Payment]
  /\ \A p \in Payments : pay[p].status = "NONE" => pay[p].alloc = NoAlloc
BoundOK == overlaps \in 0 .. MaxOverlaps

(* The invariant, part by part ... *)
LEMMA Parts == IInv => NotesOK /\ RequestsOK /\ PaymentsOK /\ BoundOK
  BY DEF IInv, TypeOK, RowsOK, NotesOK, RequestsOK, PaymentsOK, BoundOK

(* ... and put together again after a step. *)
LEMMA Together ==
  ASSUME Kept, LedgerTyped, PhasesOK', NotesOK', RequestsOK', PaymentsOK', BoundOK'
  PROVE  IInv'
<1>1. TypeOK'
  BY DEF Kept, LedgerTyped, NotesOK, RequestsOK, PaymentsOK, BoundOK, TypeOK
<1>2. RowsOK'
  BY DEF Kept, NotesOK, RequestsOK, PaymentsOK, RowsOK, Real
<1> QED
  BY <1>1, <1>2 DEF IInv

(* An invoice stays real ... *)
LEMMA RealKept == ASSUME Kept, NEW i, Real(i) PROVE Real(i)'
  BY DEF Kept, Real

(* ... and so does the one a request is about. *)
LEMMA FoundedKept == ASSUME Kept, NEW r, Founded(r) PROVE Founded(r)'
  BY RealKept DEF Founded, Real

(* Each part survives a step that leaves its rows alone: the ledger ... *)
LEMMA LedgerUnchanged == ASSUME IInv, UNCHANGED ledger PROVE LedgerTyped /\ PhasesOK'
  BY DEF IInv, TypeOK, ledger, LedgerTyped, PhasesOK, Phased

(* ... the credit notes ... *)
LEMMA NotesUnchanged == ASSUME IInv, Kept, UNCHANGED note PROVE NotesOK'
  BY Parts, RealKept DEF NotesOK

(* ... the payments ... *)
LEMMA PaymentsUnchanged == ASSUME IInv, UNCHANGED pay PROVE PaymentsOK'
  BY Parts DEF PaymentsOK, Payment, NoAlloc

(* ... and the requests. *)
LEMMA RequestsUnchanged == ASSUME IInv, Kept, UNCHANGED req PROVE RequestsOK'
  BY Parts, FoundedKept DEF RequestsOK, Request

(* Answering a request leaves the others as they were. *)
LEMMA Answered == ASSUME IInv, Kept, NEW c \in Clients, Answer(c) PROVE RequestsOK' /\ BoundOK'
<1>1. req' = [req EXCEPT ![c] = Idle] /\ overlaps' = overlaps
  BY DEF Answer
<1>2. RequestsOK /\ BoundOK
  BY Parts
<1>3. BoundOK'
  BY <1>1, <1>2 DEF BoundOK
<1>4. RequestsOK'
  BY <1>1, <1>2, FoundedKept DEF RequestsOK, Request
<1> QED
  BY <1>3, <1>4

(* A new request is about a real invoice. *)
LEMMA Asked ==
  ASSUME IInv, UNCHANGED inv, NEW c \in Clients, NEW r \in Request, Founded(r),
         req' = [req EXCEPT ![c] = r]
  PROVE  RequestsOK'
<1>1. RequestsOK /\ Kept
  BY Parts, InvoicesUnchanged DEF IInv
<1>2. Founded(r)' /\ \A d \in Clients : req[d] # Idle => Founded(req[d])'
  <2>1. ASSUME NEW d \in Clients, req[d] # Idle PROVE Founded(req[d])'
    <3>1. Founded(req[d])
      BY <1>1, <2>1 DEF RequestsOK
    <3> QED
      BY <3>1 DEF Founded, Real
  <2> QED
    BY <2>1, <1>1, FoundedKept
<1>3. req' \in [Clients -> Request \cup {Idle}]
  BY <1>1 DEF RequestsOK
<1>4. \A d \in Clients : req'[d] = IF d = c THEN r ELSE req[d]
  BY <1>1 DEF RequestsOK
<1> QED
  BY <1>2, <1>3, <1>4 DEF RequestsOK, Request

(* The bound on overlapping requests is kept. *)
LEMMA Started == ASSUME IInv, Start PROVE BoundOK'
  BY Parts, BoundAssumption DEF Start, BoundOK

(* What is known of a request under way. *)
LEMMA RequestTyped ==
  ASSUME IInv, NEW c \in Clients, req[c] # Idle
  PROVE  /\ req[c] \in Request /\ Founded(req[c])
         /\ req[c].op # "receipt" => Real(req[c].inv) /\ req[c].inv \in Invoices
  BY Parts DEF RequestsOK, Founded, Real
-----------------------------------------------------------------------------
(* IInv is inductive, operation by operation: a new invoice ... *)
LEMMA CreateKeeps ==
  ASSUME IInv, NEW i \in Invoices, NEW t \in Totals, NEW b \in BOOLEAN, Create(i, t, b)
  PROVE  IInv'
<1>1. t \in Nat /\ t > 0
  BY AmountAssumption
<1>2. Start /\ UNCHANGED <<pay, note, req>>
  BY DEF Create
<1>3. Kept /\ LedgerTyped /\ PhasesOK'
  <2>1. CASE Post(i, "DRAFT", t, "ISSUED")
    BY <1>1, <2>1, PostKeeps DEF Statuses
  <2>2. CASE inv' = [inv EXCEPT ![i].status = "DRAFT", ![i].total = t] /\ UNCHANGED ledger
    <3> DEFINE row == [inv[i] EXCEPT !.status = "DRAFT", !.total = t]
    <3>1. inv[i] \in CustomerInvoice
      BY DEF IInv, TypeOK
    <3>2. row \in CustomerInvoice /\ row.total > 0
      BY <1>1, <3>1 DEF CustomerInvoice, Statuses
    <3>3. inv' = [inv EXCEPT ![i] = row]
      BY <2>2
    <3> HIDE DEF row
    <3> QED
      BY <2>2, <3>2, <3>3, RowWritten, LedgerUnchanged DEF IInv
  <2> QED
    BY <2>1, <2>2 DEF Create
<1> QED
  BY <1>2, <1>3, Started, NotesUnchanged, PaymentsUnchanged, RequestsUnchanged, Together

(* ... reading an invoice for a request on it ... *)
LEMMA LoadKeeps ==
  ASSUME IInv, NEW c \in Clients, NEW i \in Invoices, NEW op \in Ops, NEW form \in Nat,
         NEW b \in BOOLEAN, op = "edit" => form > 0, Load(c, op, i, form, b)
  PROVE  IInv'
<1> DEFINE r == [op |-> op, inv |-> i, seen |-> inv[i].status, form |-> form, issue |-> b,
                 share |-> NoAlloc]
<1>1. /\ Exists(i) /\ req' = [req EXCEPT ![c] = r] /\ Start
      /\ UNCHANGED <<inv, ledger, pay, note>>
  BY DEF Load
<1>2. r \in Request
  BY DEF Request, NoAlloc, IInv, TypeOK, CustomerInvoice
<1>3. Founded(r)
  <2>1. Real(i)
    BY <1>1 DEF Exists, IInv, RowsOK
  <2>2. op # "receipt"
    BY DEF Ops
  <2> QED
    BY <2>1, <2>2 DEF Founded
<1> HIDE DEF r
<1>4. Kept
  BY <1>1, InvoicesUnchanged DEF IInv
<1> QED
  BY <1>1, <1>2, <1>3, <1>4, Asked, Started, LedgerUnchanged, NotesUnchanged, PaymentsUnchanged,
     Together

(* ... reading the open invoices for a receipt ... *)
LEMMA LoadReceiptKeeps ==
  ASSUME IInv, NEW c \in Clients, NEW a \in Amounts, LoadReceipt(c, a)
  PROVE  IInv'
<1> DEFINE r == [op |-> "receipt", inv |-> Detached, seen |-> "NONE", form |-> a,
                 issue |-> FALSE, share |-> Share(a)]
<1>1. req' = [req EXCEPT ![c] = r] /\ Start /\ UNCHANGED <<inv, ledger, pay, note>>
  BY DEF LoadReceipt
<1>2. a \in Nat /\ TypeOK
  BY AmountAssumption DEF IInv
<1>3. r \in Request
  BY <1>2, ShareTyped DEF Request, Statuses
<1>4. ASSUME NEW i \in Invoices, Share(a)[i] > 0 PROVE Real(i)
  <2>1. Wanted(i) # 0
    BY <1>2, <1>4, ShareTyped, SumsTyped DEF Wanted
  <2>2. Exists(i)
    BY <2>1 DEF Wanted, Owed
  <2> QED
    BY <2>2 DEF Exists, IInv, RowsOK
<1>5. Founded(r)
  BY <1>4 DEF Founded
<1> HIDE DEF r
<1>6. Kept
  BY <1>1, InvoicesUnchanged DEF IInv
<1> QED
  BY <1>1, <1>3, <1>5, <1>6, Asked, Started, LedgerUnchanged, NotesUnchanged,
     PaymentsUnchanged, Together
-----------------------------------------------------------------------------
(* The requests that write an invoice: what each leaves of it and of the ledger. *)
LEMMA InvoiceRequestKeeps ==
  ASSUME IInv, NEW c \in Clients, Issue(c) \/ Send(c) \/ Edit(c) \/ Delete(c) \/ Cancel(c)
  PROVE  IInv'
<1> DEFINE r == req[c]
           i == r.inv
<1>1. /\ r # Idle /\ r.op # "receipt" /\ Answer(c) /\ UNCHANGED <<pay, note>>
      /\ Edit(c) => r.op = "edit"
  BY DEF Issue, Send, Edit, Delete, Cancel
<1>2. /\ r \in Request /\ Real(i) /\ i \in Invoices /\ (r.op = "edit" => r.form > 0)
      /\ r.seen \in Statuses /\ r.form \in Nat
  BY <1>1, RequestTyped DEF Founded, Request
<1>3. /\ inv[i] \in CustomerInvoice /\ inv[i].total \in Nat /\ inv[i].total > 0
      /\ TypeOK /\ RowsOK
  BY <1>2 DEF IInv, TypeOK, CustomerInvoice, Real
<1>4. Kept /\ LedgerTyped /\ PhasesOK'
  <2>1. ASSUME NEW total \in Nat, total > 0, NEW s \in Statuses, Post(i, r.seen, total, s)
        PROVE  Kept /\ LedgerTyped /\ PhasesOK'
    <3> HIDE DEF r, i
    <3> QED
      BY <1>2, <2>1, PostKeeps
  <2>2. ASSUME NEW s \in Statuses, inv' = [inv EXCEPT ![i].status = s] PROVE Kept
    <3> HIDE DEF r, i
    <3> QED
      BY <1>2, <1>3, <2>2, StatusWritten
  <2>3. CASE Issue(c)
    BY <1>3, <2>1, <2>3 DEF Issue, Statuses
  <2>4. CASE Send(c)
    <3>1. CASE Post(i, r.seen, inv[i].total, "SENT")
      BY <1>3, <2>1, <3>1 DEF Statuses
    <3>2. CASE inv' = [inv EXCEPT ![i].status = "SENT"] /\ UNCHANGED ledger
      BY <2>2, <3>2, LedgerUnchanged DEF Statuses
    <3> QED
      BY <2>4, <3>1, <3>2 DEF Send
  <2>5. CASE Edit(c)
    <3>1. r.form > 0
      BY <1>1, <1>2, <2>5
    <3>2. CASE Post(i, r.seen, r.form, "ISSUED")
      BY <1>2, <2>1, <3>1, <3>2 DEF Statuses
    <3>3. CASE inv' = [inv EXCEPT ![i] = [status |-> r.seen, total |-> r.form, deleted |-> FALSE]]
               /\ UNCHANGED ledger
      <4> DEFINE row == [status |-> r.seen, total |-> r.form, deleted |-> FALSE]
      <4>1. row \in CustomerInvoice /\ row.total > 0 /\ inv' = [inv EXCEPT ![i] = row]
        BY <1>2, <3>1, <3>3 DEF CustomerInvoice
      <4> HIDE DEF row, r, i
      <4> QED
        BY <1>2, <1>3, <3>3, <4>1, RowWritten, LedgerUnchanged
    <3> QED
      BY <2>5, <3>2, <3>3 DEF Edit
  <2>6. CASE Delete(c)
    <3> DEFINE row == [inv[i] EXCEPT !.deleted = TRUE]
    <3>1. row \in CustomerInvoice /\ row.total > 0
      BY <1>3 DEF CustomerInvoice
    <3>2. inv' = [inv EXCEPT ![i] = row] /\ UNCHANGED ledger
      BY <2>6 DEF Delete
    <3> HIDE DEF row, r, i
    <3> QED
      BY <1>2, <1>3, <3>1, <3>2, RowWritten, LedgerUnchanged
  <2>7. CASE Cancel(c)
    <3>1. Kept
      BY <2>2, <2>7 DEF Cancel, Statuses
    <3>2. UNCHANGED ledger \/ ("AR_INVOICE" \in refs[i] /\ WriteBack(i))
      BY <2>7 DEF Cancel
    <3> HIDE DEF r, i
    <3> QED
      BY <1>2, <3>1, <3>2, WriteBackKeeps, LedgerUnchanged
  <2> QED
    BY <2>3, <2>4, <2>5, <2>6, <2>7
<1> QED
  BY <1>1, <1>4, Answered, NotesUnchanged, PaymentsUnchanged, Together

(* A payment row written. *)
LEMMA PaymentWritten ==
  ASSUME IInv, NEW p \in Payments, NEW row \in Payment, row.status # "NONE",
         pay' = [pay EXCEPT ![p] = row]
  PROVE  PaymentsOK'
<1>1. PaymentsOK
  BY Parts
<1>2. pay' \in [Payments -> Payment] /\ \A q \in Payments : pay'[q] = IF q = p THEN row ELSE pay[q]
  BY <1>1 DEF PaymentsOK
<1> QED
  BY <1>1, <1>2 DEF PaymentsOK, Payment, NoAlloc

(* A new refund, by whichever screen. *)
LEMMA RefundWritten ==
  ASSUME IInv, NEW p \in Payments, NEW amount \in Nat,
         pay' = [pay EXCEPT ![p].status = "POSTED", ![p].direction = "REFUND", ![p].amount = amount]
  PROVE  PaymentsOK'
<1> DEFINE row == [pay[p] EXCEPT !.status = "POSTED", !.direction = "REFUND", !.amount = amount]
<1>1. pay[p] \in Payment
  BY DEF IInv, TypeOK
<1>2. row \in Payment /\ row.status # "NONE" /\ pay' = [pay EXCEPT ![p] = row]
  BY <1>1 DEF Payment
<1> HIDE DEF row
<1> QED
  BY <1>2, PaymentWritten

(* ... a refund of an invoice ... *)
LEMMA RefundKeeps ==
  ASSUME IInv, NEW c \in Clients, NEW p \in Payments, Refund(c, p)
  PROVE  IInv'
<1>1. /\ req[c] # Idle /\ req[c].op = "refund" /\ Answer(c) /\ UNCHANGED <<ledger, note>>
      /\ inv' = [inv EXCEPT ![req[c].inv].status = "REFUNDED"]
      /\ pay' = [pay EXCEPT ![p].status = "POSTED", ![p].direction = "REFUND",
                            ![p].amount = req[c].form]
  BY DEF Refund
<1>2. Real(req[c].inv) /\ req[c].form \in Nat
  BY <1>1, RequestTyped DEF Request
<1>3. Kept
  BY <1>1, <1>2, StatusWritten DEF IInv, Statuses
<1>4. PaymentsOK'
  BY <1>1, <1>2, RefundWritten
<1> QED
  BY <1>1, <1>3, <1>4, Answered, LedgerUnchanged, NotesUnchanged, Together

(* Some real invoices get another status. *)
LEMMA StatusesWritten ==
  ASSUME IInv, NEW P \in SUBSET Invoices, NEW s \in Statuses, \A i \in P : Real(i),
         inv' = [i \in Invoices |-> IF i \in P THEN [inv[i] EXCEPT !.status = s] ELSE inv[i]]
  PROVE  Kept
<1>1. inv \in [Invoices -> CustomerInvoice] /\ \A i \in Invoices : inv[i].status # "NONE" => inv[i].total > 0
  BY DEF IInv, TypeOK, RowsOK, Real
<1>2. ASSUME NEW i \in Invoices
      PROVE  /\ inv'[i] \in CustomerInvoice
             /\ inv'[i].total = inv[i].total
             /\ inv'[i].status # "NONE" => inv[i].total > 0
  BY <1>1 DEF CustomerInvoice, Real
<1> QED
  BY <1>2 DEF Kept

(* ... a receipt shared among invoices ... *)
LEMMA ReceiptKeeps ==
  ASSUME IInv, NEW c \in Clients, NEW p \in Payments, Receipt(c, p)
  PROVE  IInv'
<1> DEFINE r == req[c]
           P == {i \in Invoices : r.share[i] > 0 /\ Outstanding(i) <= r.share[i]}
           row == [status |-> "POSTED", direction |-> "RECEIPT", amount |-> r.form,
                   alloc |-> r.share]
<1>1. /\ r # Idle /\ r.op = "receipt" /\ Answer(c) /\ UNCHANGED <<ledger, note>>
      /\ inv' = [i \in Invoices |-> IF i \in P THEN [inv[i] EXCEPT !.status = "PAID"] ELSE inv[i]]
      /\ pay' = [pay EXCEPT ![p] = row]
  BY DEF Receipt
<1>2. r \in Request /\ Founded(r)
  BY <1>1, RequestTyped
<1>3. \A i \in P : Real(i)
  BY <1>1, <1>2 DEF Founded
<1>4. row \in Payment /\ row.status # "NONE"
  BY <1>2 DEF Payment, Request
<1>5. P \in SUBSET Invoices /\ "PAID" \in Statuses
  BY DEF Statuses
<1> HIDE DEF P, row, r
<1>6. Kept
  BY <1>1, <1>3, <1>5, StatusesWritten
<1>7. PaymentsOK'
  BY <1>1, <1>4, PaymentWritten
<1> QED
  BY <1>1, <1>6, <1>7, Answered, LedgerUnchanged, NotesUnchanged, Together

(* ... a refund to the customer ... *)
LEMMA RefundCustomerKeeps ==
  ASSUME IInv, NEW p \in Payments, NEW a \in Amounts, RefundCustomer(p, a)
  PROVE  IInv'
<1>1. /\ Start /\ UNCHANGED <<inv, ledger, note, req>>
      /\ pay' = [pay EXCEPT ![p].status = "POSTED", ![p].direction = "REFUND", ![p].amount = a]
  BY DEF RefundCustomer
<1>2. PaymentsOK'
  BY <1>1, AmountAssumption, RefundWritten
<1>3. Kept
  BY <1>1, InvoicesUnchanged DEF IInv
<1> QED
  BY <1>1, <1>2, <1>3, Started, LedgerUnchanged, NotesUnchanged, RequestsUnchanged, Together

(* ... deleting a payment ... *)
LEMMA DeletePaymentKeeps ==
  ASSUME IInv, NEW p \in Payments, DeletePayment(p)
  PROVE  IInv'
<1> DEFINE P == {i \in Invoices : pay[p].alloc[i] > 0 /\ inv[i].status = "PAID"}
           row == [pay[p] EXCEPT !.status = "DELETED", !.alloc = NoAlloc]
<1>1. /\ Start /\ UNCHANGED <<ledger, note, req>>
      /\ inv' = [i \in Invoices |-> IF i \in P THEN [inv[i] EXCEPT !.status = "SENT"] ELSE inv[i]]
      /\ pay' = [pay EXCEPT ![p] = row]
  BY DEF DeletePayment, Reopened
<1>2. pay[p] \in Payment
  BY DEF IInv, TypeOK
<1>3. row \in Payment /\ row.status # "NONE"
  BY <1>2 DEF Payment, NoAlloc
<1>4. \A i \in P : Real(i)
  BY DEF IInv, RowsOK
<1>5. P \in SUBSET Invoices /\ "SENT" \in Statuses
  BY DEF Statuses
<1> HIDE DEF P, row
<1>6. Kept
  BY <1>1, <1>4, <1>5, StatusesWritten
<1>7. PaymentsOK'
  BY <1>1, <1>3, PaymentWritten
<1> QED
  BY <1>1, <1>6, <1>7, Started, LedgerUnchanged, NotesUnchanged, RequestsUnchanged, Together
-----------------------------------------------------------------------------
(* ... a row of a credit note ... *)
LEMMA NoteWritten ==
  ASSUME IInv, Kept, NEW n \in Notes, NEW row \in CreditNote,
         row.invoice # Detached => Real(row.invoice), note' = [note EXCEPT ![n] = row]
  PROVE  NotesOK'
<1>1. NotesOK
  BY Parts
<1>2. note' \in [Notes -> CreditNote] /\ \A m \in Notes : note'[m] = IF m = n THEN row ELSE note[m]
  BY <1>1 DEF NotesOK
<1>3. ASSUME NEW m \in Notes, note'[m].invoice # Detached PROVE Real(note'[m].invoice)
  BY <1>1, <1>2, <1>3 DEF NotesOK
<1>4. ASSUME NEW i, Real(i) PROVE Real(i)'
  BY <1>4, RealKept
<1>5. ASSUME NEW m \in Notes, note'[m].invoice # Detached
      PROVE  note'[m].invoice \in Invoices /\ inv'[note'[m].invoice].total > 0
  BY <1>3, <1>5 DEF Real, Kept
<1> QED
  BY <1>2, <1>5 DEF NotesOK, Real

(* ... a new credit note ... *)
LEMMA CreateNoteKeeps ==
  ASSUME IInv, NEW n \in Notes, NEW i \in Invoices \cup {Detached}, NEW a \in Amounts,
         CreateNote(n, i, a)
  PROVE  IInv'
<1> DEFINE row == [status |-> "DRAFT", invoice |-> i, amount |-> a]
<1>1. /\ Start /\ UNCHANGED <<inv, ledger, pay, req>>
      /\ note' = [note EXCEPT ![n] = row] /\ (i # Detached => Exists(i))
  BY DEF CreateNote
<1>2. row \in CreditNote /\ row.invoice = i
  BY AmountAssumption DEF CreditNote
<1>3. i # Detached => Real(i)
  BY <1>1 DEF Exists, IInv, RowsOK
<1> HIDE DEF row
<1>4. Kept
  BY <1>1, InvoicesUnchanged DEF IInv
<1>5. NotesOK'
  BY <1>1, <1>2, <1>3, <1>4, NoteWritten
<1> QED
  BY <1>1, <1>4, <1>5, Started, LedgerUnchanged, PaymentsUnchanged, RequestsUnchanged, Together

(* ... posting one ... *)
LEMMA PostNoteKeeps ==
  ASSUME IInv, NEW n \in Notes, PostNote(n)
  PROVE  IInv'
<1> DEFINE i == note[n].invoice
           row == [note[n] EXCEPT !.status = "POSTED"]
<1>1. /\ Start /\ UNCHANGED <<ledger, pay, req>>
      /\ note' = [note EXCEPT ![n] = row]
      /\ UNCHANGED inv \/ (i # Detached /\ inv' = [inv EXCEPT ![i].status = "PAID"])
  BY DEF PostNote
<1>2. note[n] \in CreditNote /\ (i # Detached => Real(i))
  BY DEF IInv, TypeOK, RowsOK
<1>3. row \in CreditNote /\ row.invoice = i
  BY <1>2 DEF CreditNote
<1> HIDE DEF i, row
<1>4. Kept
  BY <1>1, <1>2, StatusWritten, InvoicesUnchanged DEF IInv, Statuses
<1>5. NotesOK'
  BY <1>1, <1>2, <1>3, <1>4, NoteWritten
<1> QED
  BY <1>1, <1>4, <1>5, Started, LedgerUnchanged, PaymentsUnchanged, RequestsUnchanged, Together

(* ... a request that is refused ... *)
LEMMA FailKeeps ==
  ASSUME IInv, NEW c \in Clients, Fail(c)
  PROVE  IInv'
<1>1. Answer(c) /\ UNCHANGED <<inv, ledger, pay, note>>
  BY DEF Fail
<1>2. Kept
  BY <1>1, InvoicesUnchanged DEF IInv
<1> QED
  BY <1>1, <1>2, Answered, LedgerUnchanged, NotesUnchanged, PaymentsUnchanged, Together

(* ... and no step at all. *)
LEMMA StutterKeeps == ASSUME IInv, UNCHANGED vars PROVE IInv'
<1>1. UNCHANGED <<inv, ledger, pay, note, req, overlaps>>
  BY DEF vars, ledger
<1>2. Kept
  BY <1>1, InvoicesUnchanged DEF IInv
<1>3. BoundOK'
  BY <1>1, Parts DEF BoundOK
<1> QED
  BY <1>1, <1>2, <1>3, LedgerUnchanged, NotesUnchanged, PaymentsUnchanged, RequestsUnchanged,
     Together

(* Every step keeps the invariant, screen by screen. *)
LEMMA StepKeeps == IInv /\ [Next]_vars => IInv'
<1> SUFFICES ASSUME IInv, [Next]_vars PROVE IInv'
  OBVIOUS
<1>1. ASSUME NEW c \in Clients, NEW i \in Invoices, NEW op \in Ops \ {"edit"},
             Load(c, op, i, Paid(i), FALSE)
      PROVE  IInv'
  <2>1. Paid(i) \in Nat
    BY SumsTyped DEF IInv
  <2> QED
    BY <1>1, <2>1, LoadKeeps
<1>2. ASSUME NEW c \in Clients, NEW i \in Invoices, NEW t \in Totals, NEW b \in BOOLEAN,
             Load(c, "edit", i, t, b)
      PROVE  IInv'
  <2>1. t \in Nat /\ t > 0 /\ "edit" \in Ops
    BY AmountAssumption DEF Ops
  <2> QED
    BY <1>2, <2>1, LoadKeeps
<1> QED
  BY <1>1, <1>2, CreateKeeps, LoadReceiptKeeps, InvoiceRequestKeeps, RefundKeeps, ReceiptKeeps,
     RefundCustomerKeeps, DeletePaymentKeeps, CreateNoteKeeps, PostNoteKeeps, FailKeeps,
     StutterKeeps DEF Next

(* No row exists to begin with. *)
LEMMA InitKept == Init => IInv
<1> SUFFICES ASSUME Init PROVE IInv
  OBVIOUS
<1>1. TypeOK
  BY DetachedAssumption, BoundAssumption
     DEF Init, TypeOK, CustomerInvoice, Statuses, Payment, CreditNote, NoAlloc
<1>2. RowsOK
  BY DetachedAssumption DEF Init, RowsOK, NoAlloc
<1>3. PhasesOK
  BY DEF Init, PhasesOK, Phased
<1> QED
  BY <1>1, <1>2, <1>3 DEF IInv

(* IInv holds in every state. *)
LEMMA Invariance == Spec => []IInv
  BY InitKept, StepKeeps, PTL DEF Spec

(* The rows of the sales ledger hold what their columns may hold, and a receipt
   is shared in whole amounts (TypeOK). *)
THEOREM ReceivablesStayTyped == Spec => []TypeOK
<1>1. IInv => TypeOK
  BY DEF IInv
<1> QED
  BY <1>1, Invariance, PTL

(* Whatever requests overlap, the goods of an invoice and its receivable leave
   and come back together, and once (GoodsFollowTheLedger). *)
THEOREM GoodsAndMoneyTogether == Spec => []GoodsFollowTheLedger
<1>1. IInv => GoodsFollowTheLedger
  <2> SUFFICES ASSUME IInv, NEW i \in Invoices
               PROVE  ar[i] \in {0, je[i]} /\ out[i] = IF i \in Stocked /\ ar[i] # 0 THEN 1 ELSE 0
    BY DEF GoodsFollowTheLedger
  <2>1. Phased(i) /\ je[i] \in Nat
    BY DEF IInv, PhasesOK, TypeOK
  <2> QED
    BY <2>1 DEF Phased
<1> QED
  BY <1>1, Invariance, PTL

-----------------------------------------------------------------------------
(* While requests have not overlapped, one is under way at most, and what it read
   still stands. *)
Quiet == \A c \in Clients : req[c] = Idle

Alone == \A c, d \in Clients : req[c] # Idle /\ req[d] # Idle => c = d

Current(r) ==
  IF r.op = "receipt" THEN r.share = Share(r.form)
  ELSE Exists(r.inv) /\ r.seen = inv[r.inv].status /\ Admits(r.op, r.inv)

Fresh == \A c \in Clients : req[c] # Idle => Current(req[c])

(* ... a PAID invoice has nothing due, and an ISSUED one is booked at its total. *)
Settled(i) == inv[i].status = "PAID" => Outstanding(i) <= 0
Booked(i) ==
  inv[i].status = "ISSUED" =>
    "AR_INVOICE" \in refs[i] /\ "AR_INVOICE_CANCEL" \notin refs[i] /\ inv[i].total = je[i]

RowsAgree == \A i \in Invoices : Settled(i) /\ Booked(i)

CalmInv == calm => Alone /\ Fresh /\ RowsAgree

(* A step of one invoice as OpenItem sees it. *)
ItemMove(i) ==
  \/ Phase(i) = "new" /\ Phase(i)' = "open" /\ je'[i] > 0 /\ Paid(i)' = Paid(i)
  \/ /\ Phase(i)' = Phase(i) /\ je'[i] = je[i] /\ Paid(i)' > Paid(i)
     /\ calm' => Phase(i) = "open" /\ Paid(i)' <= je[i]
  \/ Phase(i)' = Phase(i) /\ je'[i] = je[i] /\ Paid(i)' < Paid(i)
  \/ /\ Phase(i) = "open" /\ Phase(i)' = "closed" /\ je'[i] = je[i] /\ Paid(i)' = Paid(i)
     /\ calm' => Paid(i) = 0
  \/ Phase(i)' = Phase(i) /\ je'[i] = je[i] /\ Paid(i)' = Paid(i)

(* What every step does, while calm and otherwise. *)
Moves == (calm' => RowsAgree') /\ \A i \in Invoices : ItemMove(i)

(* Nothing starts beside another request without ending the calm. *)
LEMMA StartedAlone ==
  ASSUME IInv, Start
  PROVE  calm' => calm /\ Quiet
  BY Parts DEF Start, calm, Quiet, BoundOK

(* The last request answered while requests do not overlap acted on the rows it read. *)
LEMMA AnsweredAlone ==
  ASSUME IInv, CalmInv, NEW c \in Clients, req[c] # Idle, Answer(c)
  PROVE  calm' => calm /\ Quiet' /\ Current(req[c])
<1> SUFFICES ASSUME calm' PROVE calm /\ Quiet' /\ Current(req[c])
  OBVIOUS
<1>1. calm /\ req' = [req EXCEPT ![c] = Idle]
  BY DEF calm, Answer
<1>2. Alone /\ Fresh
  BY <1>1 DEF CalmInv
<1>3. \A d \in Clients : req'[d] = IF d = c THEN Idle ELSE req[d]
  BY <1>1 DEF IInv, TypeOK
<1> QED
  BY <1>1, <1>2, <1>3 DEF Alone, Fresh, Quiet

(* With no request under way none is stale. *)
LEMMA QuietFresh == Quiet' => Alone' /\ Fresh'
  BY DEF Quiet, Alone, Fresh

(* How the money on an invoice moves with one payment ... *)
LEMMA PaidSame ==
  ASSUME NEW i \in Invoices, \A p \in Payments : pay'[p].alloc[i] = pay[p].alloc[i]
  PROVE  Paid(i)' = Paid(i)
<1>1. [p \in Payments |-> pay'[p].alloc[i]] = [p \in Payments |-> pay[p].alloc[i]]
  OBVIOUS
<1> QED
  BY <1>1 DEF Paid

(* ... by what its allocation changes ... *)
LEMMA PaidMoves ==
  ASSUME IInv, NEW p \in Payments, NEW row \in Payment, pay' = [pay EXCEPT ![p] = row],
         NEW i \in Invoices
  PROVE  Paid(i)' = Paid(i) + row.alloc[i] - pay[p].alloc[i]
<1> DEFINE f == [q \in Payments |-> pay[q].alloc[i]]
           h == [q \in Payments |-> pay'[q].alloc[i]]
<1>1. pay \in [Payments -> Payment]
  BY DEF IInv, TypeOK
<1>2. \A q \in Payments : pay'[q] = IF q = p THEN row ELSE pay[q]
  BY <1>1
<1>3. f \in [Payments -> Int] /\ h \in [Payments -> Int]
  BY <1>1, <1>2 DEF Payment
<1>4. h[p] = row.alloc[i] /\ f[p] = pay[p].alloc[i] /\ \A q \in Payments \ {p} : h[q] = f[q]
  BY <1>2
<1>5. Paid(i) = SumFunction(f) /\ Paid(i)' = SumFunction(h)
  BY DEF Paid
<1> HIDE DEF f, h
<1>6. SumFunction(h) = SumFunction(f) + h[p] - f[p]
  BY <1>3, <1>4, FiniteAssumption, SumUpdate
<1> QED
  BY <1>4, <1>5, <1>6

(* ... and what is credited with one credit note. *)
Credit(row, i) == IF row.status = "POSTED" /\ row.invoice = i THEN row.amount ELSE 0

(* ... and with one credit note ... *)
LEMMA CreditMoves ==
  ASSUME IInv, NEW n \in Notes, NEW row \in CreditNote, note' = [note EXCEPT ![n] = row],
         NEW i \in Invoices
  PROVE  Credited(i)' = Credited(i) + Credit(row, i) - Credit(note[n], i)
<1> DEFINE f == [m \in Notes |-> Credit(note[m], i)]
           h == [m \in Notes |-> Credit(note'[m], i)]
<1>1. note \in [Notes -> CreditNote]
  BY DEF IInv, TypeOK
<1>2. \A m \in Notes : note'[m] = IF m = n THEN row ELSE note[m]
  BY <1>1
<1>3. f \in [Notes -> Int] /\ h \in [Notes -> Int]
  BY <1>1, <1>2 DEF CreditNote, Credit
<1>4. h[n] = Credit(row, i) /\ f[n] = Credit(note[n], i) /\ \A m \in Notes \ {n} : h[m] = f[m]
  BY <1>2
<1>5. Credited(i) = SumFunction(f) /\ Credited(i)' = SumFunction(h)
  BY DEF Credited, Credit
<1> HIDE DEF f, h
<1>6. SumFunction(h) = SumFunction(f) + h[n] - f[n]
  BY <1>3, <1>4, FiniteAssumption, SumUpdate
<1> QED
  BY <1>4, <1>5, <1>6

(* ... and stays when no note moves ... *)
LEMMA CreditedSame == UNCHANGED note => \A i \in Invoices : Credited(i)' = Credited(i)
  BY DEF Credited

(* ... or no payment does. *)
LEMMA AllocsSame == UNCHANGED pay => \A i \in Invoices : Paid(i)' = Paid(i)
  BY DEF Paid

(* A step that leaves the ledger and the allocations alone moves no item. *)
LEMMA NoMove ==
  ASSUME UNCHANGED ledger, NEW i \in Invoices, Paid(i)' = Paid(i)
  PROVE  ItemMove(i)
  BY DEF ItemMove, ledger, Phase

(* An invoice no step makes PAID or ISSUED stays as agreed. *)
LEMMA AgreeKept ==
  ASSUME RowsAgree, NEW i \in Invoices, UNCHANGED <<refs[i], je[i]>>,
         Paid(i)' = Paid(i), Credited(i)' = Credited(i),
         inv'[i].status \in {"PAID", "ISSUED"} =>
           inv'[i].status = inv[i].status /\ inv'[i].total = inv[i].total
  PROVE  Settled(i)' /\ Booked(i)'
<1>1. Settled(i) /\ Booked(i)
  BY DEF RowsAgree
<1>2. CASE inv'[i].status = "PAID"
  <2>1. Outstanding(i)' = Outstanding(i)
    BY <1>2 DEF Outstanding
  <2> QED
    BY <1>1, <1>2, <2>1 DEF Settled, Booked
<1>3. CASE inv'[i].status = "ISSUED"
  BY <1>1, <1>3 DEF Settled, Booked
<1>4. CASE inv'[i].status \notin {"PAID", "ISSUED"}
  BY <1>4 DEF Settled, Booked
<1> QED
  BY <1>2, <1>3, <1>4

(* Steps that touch neither the ledger nor an allocation or a posted note, and make
   no invoice PAID or ISSUED. *)
LEMMA QuietMoves ==
  ASSUME IInv, CalmInv, UNCHANGED ledger, calm' => calm,
         \A i \in Invoices : Paid(i)' = Paid(i) /\ Credited(i)' = Credited(i),
         \A i \in Invoices : calm /\ inv'[i].status \in {"PAID", "ISSUED"} =>
           inv'[i].status = inv[i].status /\ inv'[i].total = inv[i].total
  PROVE  Moves
<1>1. \A i \in Invoices : ItemMove(i)
  BY NoMove
<1>2. ASSUME calm' PROVE RowsAgree'
  <2>1. calm /\ RowsAgree
    BY <1>2 DEF CalmInv
  <2>2. \A i \in Invoices : UNCHANGED <<refs[i], je[i]>>
    BY DEF ledger
  <2>3. \A i \in Invoices : Settled(i)' /\ Booked(i)'
    BY <2>1, <2>2, AgreeKept
  <2> QED
    BY <2>3 DEF RowsAgree
<1> QED
  BY <1>1, <1>2 DEF Moves

(* Booking an invoice moves its item, from new to open. *)
LEMMA BookMoves ==
  ASSUME IInv, CalmInv, NEW i \in Invoices, NEW total \in Nat, total > 0,
         NEW s \in {"ISSUED", "SENT"}, Book(i, total, s), UNCHANGED <<pay, note>>, calm' => calm
  PROVE  Moves
<1> DEFINE row == [status |-> s, total |-> total, deleted |-> FALSE]
           marks == {"AR_INVOICE"} \cup (IF i \in Stocked THEN {"COGS"} ELSE {})
<1>1. "AR_INVOICE" \notin refs[i] /\ refs[i] = {}
  BY DEF Book, IInv, PhasesOK, Phased
<1>2. /\ inv \in [Invoices -> CustomerInvoice]
      /\ refs \in [Invoices -> SUBSET Refs] /\ je \in [Invoices -> Nat]
  BY DEF IInv, TypeOK
<1>3. /\ inv' = [inv EXCEPT ![i] = row] /\ refs' = [refs EXCEPT ![i] = @ \cup marks]
      /\ je' = [je EXCEPT ![i] = total]
  <2>1. refs[i] \cup {"AR_INVOICE"} \cup (IF i \in Stocked THEN {"COGS"} ELSE {})
          = refs[i] \cup marks
    OBVIOUS
  <2> QED
    BY <2>1 DEF Book
<1>4. "AR_INVOICE" \in marks /\ "AR_INVOICE_CANCEL" \notin marks /\ row.status = s /\ row.total = total
  OBVIOUS
<1> HIDE DEF marks, row
<1>5. inv'[i] = row /\ refs'[i] = marks /\ je'[i] = total
  BY <1>1, <1>2, <1>3
<1>6. \A j \in Invoices \ {i} : inv'[j] = inv[j] /\ refs'[j] = refs[j] /\ je'[j] = je[j]
  BY <1>2, <1>3
<1>7. \A j \in Invoices : Paid(j)' = Paid(j) /\ Credited(j)' = Credited(j)
  BY AllocsSame, CreditedSame
<1>8. ASSUME NEW j \in Invoices PROVE ItemMove(j)
  <2>1. CASE j = i
    <3>1. Phase(i) = "new" /\ Phase(i)' = "open"
      BY <1>1, <1>4, <1>5 DEF Phase
    <3> QED
      BY <1>5, <1>7, <2>1, <3>1 DEF ItemMove
  <2>2. CASE j # i
    BY <1>6, <1>7, <2>2 DEF ItemMove, Phase
  <2> QED
    BY <2>1, <2>2
<1>9. ASSUME calm', NEW j \in Invoices PROVE Settled(j)' /\ Booked(j)'
  <2>1. calm /\ RowsAgree
    BY <1>9 DEF CalmInv
  <2>2. CASE j = i
    BY <1>4, <1>5, <2>2 DEF Settled, Booked
  <2>3. CASE j # i
    BY <1>6, <1>7, <2>1, <2>3, AgreeKept
  <2> QED
    BY <2>2, <2>3
<1> QED
  BY <1>8, <1>9 DEF Moves, RowsAgree

(* Booking an invoice opens its item at its total. *)
LEMMA PostMoves ==
  ASSUME IInv, CalmInv, NEW i \in Invoices, NEW seen, NEW total \in Nat, total > 0,
         NEW s \in {"ISSUED", "SENT"}, Post(i, seen, total, s), UNCHANGED <<pay, note>>,
         calm' => calm
  PROVE  Moves
<1>1. CASE Book(i, total, s)
  BY <1>1, BookMoves
<1>2. CASE UNCHANGED <<inv, ledger>>
  BY <1>2, QuietMoves, AllocsSame, CreditedSame
<1> QED
  BY <1>1, <1>2 DEF Post

(* Writing an invoice back closes its item. *)
LEMMA WriteBackMoves ==
  ASSUME IInv, CalmInv, NEW i \in Invoices, "AR_INVOICE" \in refs[i], WriteBack(i),
         inv' = [inv EXCEPT ![i].status = "CANCELLED"], UNCHANGED <<pay, note>>,
         calm' => calm /\ Paid(i) = 0
  PROVE  Moves
<1> DEFINE more == {"AR_INVOICE_CANCEL"} \cup (IF "COGS" \in refs[i] THEN {"COGS_CANCEL"} ELSE {})
<1>1. /\ inv \in [Invoices -> CustomerInvoice]
      /\ refs \in [Invoices -> SUBSET Refs]
  BY DEF IInv, TypeOK
<1>2. /\ "AR_INVOICE_CANCEL" \notin refs[i] /\ refs' = [refs EXCEPT ![i] = @ \cup more] /\ je' = je
  BY DEF WriteBack
<1>3. "AR_INVOICE_CANCEL" \in more
  OBVIOUS
<1> HIDE DEF more
<1>4. refs'[i] = refs[i] \cup more /\ inv'[i].status = "CANCELLED"
  BY <1>1, <1>2 DEF CustomerInvoice
<1>5. \A j \in Invoices \ {i} : inv'[j] = inv[j] /\ refs'[j] = refs[j]
  BY <1>1, <1>2
<1>6. \A j \in Invoices : Paid(j)' = Paid(j) /\ Credited(j)' = Credited(j)
  BY AllocsSame, CreditedSame
<1>7. ASSUME NEW j \in Invoices PROVE ItemMove(j)
  <2>1. CASE j = i
    <3>1. Phase(i) = "open" /\ Phase(i)' = "closed"
      BY <1>2, <1>3, <1>4 DEF Phase
    <3>2. calm' => Paid(i) = 0
      OBVIOUS
    <3> QED
      BY <1>2, <1>6, <2>1, <3>1, <3>2 DEF ItemMove
  <2>2. CASE j # i
    BY <1>2, <1>5, <1>6, <2>2 DEF ItemMove, Phase
  <2> QED
    BY <2>1, <2>2
<1>8. ASSUME calm', NEW j \in Invoices PROVE Settled(j)' /\ Booked(j)'
  <2>1. calm /\ RowsAgree
    BY <1>8 DEF CalmInv
  <2>2. CASE j = i
    BY <1>4, <2>2 DEF Settled, Booked
  <2>3. CASE j # i
    BY <1>2, <1>5, <1>6, <2>1, <2>3, AgreeKept
  <2> QED
    BY <2>2, <2>3
<1> QED
  BY <1>7, <1>8 DEF Moves, RowsAgree
-----------------------------------------------------------------------------
(* What each screen moves. *)
LEMMA CreateMoves ==
  ASSUME IInv, CalmInv, NEW i \in Invoices, NEW t \in Totals, NEW b \in BOOLEAN, Create(i, t, b)
  PROVE  Moves
<1>1. t \in Nat /\ t > 0 /\ Start /\ UNCHANGED <<pay, note, req>>
  BY AmountAssumption DEF Create
<1>2. calm' => calm
  BY <1>1, StartedAlone
<1>3. CASE Post(i, "DRAFT", t, "ISSUED")
  BY <1>1, <1>2, <1>3, PostMoves
<1>4. CASE inv' = [inv EXCEPT ![i].status = "DRAFT", ![i].total = t] /\ UNCHANGED ledger
  <2>1. inv \in [Invoices -> CustomerInvoice]
    BY DEF IInv, TypeOK
  <2>2. inv'[i].status = "DRAFT" /\ \A j \in Invoices \ {i} : inv'[j] = inv[j]
    BY <1>4, <2>1 DEF CustomerInvoice
  <2>3. \A j \in Invoices : inv'[j].status \in {"PAID", "ISSUED"} =>
           inv'[j].status = inv[j].status /\ inv'[j].total = inv[j].total
    BY <2>2
  <2>4. \A j \in Invoices : Paid(j)' = Paid(j) /\ Credited(j)' = Credited(j)
    BY <1>1, AllocsSame, CreditedSame
  <2> QED
    BY <1>2, <1>4, <2>3, <2>4, QuietMoves
<1> QED
  BY <1>3, <1>4 DEF Create

(* Reading rows moves no item. *)
LEMMA LoadMoves ==
  ASSUME IInv, CalmInv, Start \/ UNCHANGED overlaps, UNCHANGED <<inv, ledger, pay, note>>
  PROVE  Moves
<1>1. calm' => calm
  BY StartedAlone DEF calm
<1>2. \A j \in Invoices : Paid(j)' = Paid(j) /\ Credited(j)' = Credited(j)
  BY AllocsSame, CreditedSame
<1> QED
  BY <1>1, <1>2, QuietMoves

(* A request on an invoice moves its item as OpenItem allows. *)
LEMMA InvoiceRequestMoves ==
  ASSUME IInv, CalmInv, NEW c \in Clients, Issue(c) \/ Send(c) \/ Edit(c) \/ Delete(c) \/ Cancel(c)
  PROVE  Moves
<1> DEFINE r == req[c]
           i == r.inv
<1>1. /\ r # Idle /\ r.op # "receipt" /\ Answer(c) /\ UNCHANGED <<pay, note>>
      /\ Edit(c) => r.op = "edit"
      /\ Cancel(c) => r.op = "cancel"
  BY DEF Issue, Send, Edit, Delete, Cancel
<1>2. /\ r \in Request /\ Real(i) /\ i \in Invoices /\ (r.op = "edit" => r.form > 0)
      /\ r.seen \in Statuses /\ r.form \in Nat
  BY <1>1, RequestTyped DEF Founded, Request
<1>3. /\ inv[i] \in CustomerInvoice /\ inv[i].total \in Nat /\ inv[i].total > 0
      /\ inv \in [Invoices -> CustomerInvoice]
  BY <1>2 DEF IInv, TypeOK, CustomerInvoice, Real
<1>4. calm' => calm /\ r.seen = inv[i].status /\ Admits(r.op, i)
  BY <1>1, AnsweredAlone DEF Current
<1>5. calm <=> calm'
  BY <1>1 DEF calm, Answer
<1>6. \A j \in Invoices : Paid(j)' = Paid(j) /\ Credited(j)' = Credited(j)
  BY <1>1, AllocsSame, CreditedSame
<1>7. ASSUME NEW total \in Nat, total > 0, NEW s \in {"ISSUED", "SENT"}, Post(i, r.seen, total, s)
      PROVE  Moves
  <2>1. calm' => calm
    BY <1>4
  <2> HIDE DEF r, i
  <2> QED
    BY <1>1, <1>2, <1>7, <2>1, PostMoves
<1>8. ASSUME UNCHANGED ledger, \A j \in Invoices \ {i} : inv'[j] = inv[j],
             calm /\ inv'[i].status \in {"PAID", "ISSUED"} =>
               inv'[i].status = inv[i].status /\ inv'[i].total = inv[i].total
      PROVE  Moves
  <2>1. calm' => calm
    BY <1>4
  <2> HIDE DEF r, i
  <2>2. \A j \in Invoices : calm /\ inv'[j].status \in {"PAID", "ISSUED"} =>
           inv'[j].status = inv[j].status /\ inv'[j].total = inv[j].total
    BY <1>8
  <2> QED
    BY <1>6, <1>8, <2>1, <2>2, QuietMoves
<1>9. CASE Issue(c)
  BY <1>3, <1>7, <1>9 DEF Issue
<1>10. CASE Send(c)
  <2>1. CASE Post(i, r.seen, inv[i].total, "SENT")
    BY <1>3, <1>7, <2>1
  <2>2. CASE inv' = [inv EXCEPT ![i].status = "SENT"] /\ UNCHANGED ledger
    <3>1. inv'[i].status = "SENT" /\ \A j \in Invoices \ {i} : inv'[j] = inv[j]
      <4> HIDE DEF r, i
      <4> QED
        BY <1>2, <1>3, <2>2 DEF CustomerInvoice
    <3> QED
      BY <1>8, <2>2, <3>1
  <2> QED
    BY <1>10, <2>1, <2>2 DEF Send
<1>11. CASE Edit(c)
  <2>1. r.form > 0 /\ (calm => r.seen = "DRAFT")
    <3>1. r.op = "edit"
      BY <1>1, <1>11
    <3>2. Admits("edit", i) => inv[i].status = "DRAFT"
      BY DEF Admits
    <3> QED
      BY <1>2, <1>4, <1>5, <3>1, <3>2
  <2>2. CASE Post(i, r.seen, r.form, "ISSUED")
    BY <1>2, <1>7, <2>1, <2>2
  <2>3. CASE inv' = [inv EXCEPT ![i] = [status |-> r.seen, total |-> r.form, deleted |-> FALSE]]
             /\ UNCHANGED ledger
    <3>1. inv'[i].status = r.seen /\ \A j \in Invoices \ {i} : inv'[j] = inv[j]
      <4> DEFINE row == [status |-> r.seen, total |-> r.form, deleted |-> FALSE]
      <4>1. inv' = [inv EXCEPT ![i] = row] /\ row.status = r.seen
        BY <2>3
      <4> HIDE DEF row, r, i
      <4> QED
        BY <1>2, <1>3, <4>1
    <3> QED
      BY <1>8, <2>1, <2>3, <3>1
  <2> QED
    BY <1>11, <2>2, <2>3 DEF Edit
<1>12. CASE Delete(c)
  <2>1. inv' = [inv EXCEPT ![i].deleted = TRUE] /\ UNCHANGED ledger
    BY <1>12 DEF Delete
  <2>2. /\ inv'[i].status = inv[i].status /\ inv'[i].total = inv[i].total
        /\ \A j \in Invoices \ {i} : inv'[j] = inv[j]
    <3> HIDE DEF r, i
    <3> QED
      BY <1>2, <1>3, <2>1 DEF CustomerInvoice
  <2> QED
    BY <1>8, <2>1, <2>2
<1>13. CASE Cancel(c)
  <2>1. inv' = [inv EXCEPT ![i].status = "CANCELLED"]
    BY <1>13 DEF Cancel
  <2>2. inv'[i].status = "CANCELLED" /\ \A j \in Invoices \ {i} : inv'[j] = inv[j]
    <3> HIDE DEF r, i
    <3> QED
      BY <1>2, <1>3, <2>1 DEF CustomerInvoice
  <2>3. CASE UNCHANGED ledger
    BY <1>8, <2>2, <2>3
  <2>4. CASE "AR_INVOICE" \in refs[i] /\ WriteBack(i)
    <3>1. calm' => calm /\ Paid(i) = 0
      <4>1. r.op = "cancel"
        BY <1>1, <1>13
      <4>2. Admits("cancel", i) => Paid(i) = 0
        BY DEF Admits
      <4> QED
        BY <1>4, <4>1, <4>2
    <3> HIDE DEF r, i
    <3> QED
      BY <1>1, <1>2, <2>1, <2>4, <3>1, WriteBackMoves
  <2> QED
    BY <1>13, <2>3, <2>4 DEF Cancel
<1> QED
  BY <1>9, <1>10, <1>11, <1>12, <1>13

(* A refund has no allocations, before it is written or after. *)
LEMMA RefundAllocs ==
  ASSUME IInv, NEW p \in Payments, NEW amount,
         pay' = [pay EXCEPT ![p].status = "POSTED", ![p].direction = "REFUND", ![p].amount = amount]
  PROVE  \A i \in Invoices : Paid(i)' = Paid(i)
<1>1. pay \in [Payments -> Payment]
  BY DEF IInv, TypeOK
<1>2. \A q \in Payments : pay'[q].alloc = pay[q].alloc
  BY <1>1 DEF Payment
<1> QED
  BY <1>2, PaidSame

(* A refund of an invoice reopens its item by the amount. *)
LEMMA RefundMoves ==
  ASSUME IInv, CalmInv, NEW c \in Clients, NEW p \in Payments, Refund(c, p)
  PROVE  Moves
<1> DEFINE i == req[c].inv
<1>1. /\ req[c] # Idle /\ req[c].op = "refund" /\ Answer(c) /\ UNCHANGED <<ledger, note>>
      /\ inv' = [inv EXCEPT ![i].status = "REFUNDED"]
      /\ pay' = [pay EXCEPT ![p].status = "POSTED", ![p].direction = "REFUND",
                            ![p].amount = req[c].form]
  BY DEF Refund
<1>2. i \in Invoices /\ inv \in [Invoices -> CustomerInvoice]
  BY <1>1, RequestTyped DEF IInv, TypeOK
<1>3. calm' => calm
  BY <1>1, AnsweredAlone
<1>4. \A j \in Invoices : Paid(j)' = Paid(j) /\ Credited(j)' = Credited(j)
  BY <1>1, RefundAllocs, CreditedSame
<1> HIDE DEF i
<1>5. inv'[i].status = "REFUNDED" /\ \A j \in Invoices \ {i} : inv'[j] = inv[j]
  BY <1>1, <1>2 DEF CustomerInvoice
<1>6. \A j \in Invoices : inv'[j].status \in {"PAID", "ISSUED"} =>
           inv'[j].status = inv[j].status /\ inv'[j].total = inv[j].total
  BY <1>5
<1> QED
  BY <1>1, <1>3, <1>4, <1>6, QuietMoves

(* A refund to the customer reopens what its allocations give back. *)
LEMMA RefundCustomerMoves ==
  ASSUME IInv, CalmInv, NEW p \in Payments, NEW a \in Amounts, RefundCustomer(p, a)
  PROVE  Moves
<1>1. /\ Start /\ UNCHANGED <<inv, ledger, note, req>>
      /\ pay' = [pay EXCEPT ![p].status = "POSTED", ![p].direction = "REFUND", ![p].amount = a]
  BY DEF RefundCustomer
<1>2. \A j \in Invoices : Paid(j)' = Paid(j) /\ Credited(j)' = Credited(j)
  BY <1>1, RefundAllocs, CreditedSame
<1> QED
  BY <1>1, <1>2, StartedAlone, QuietMoves

(* A receipt settles the items it shares out to: while calm they are open, and
   take no more than was booked. *)
LEMMA ReceiptMoves ==
  ASSUME IInv, CalmInv, NEW c \in Clients, NEW p \in Payments, Receipt(c, p)
  PROVE  Moves
<1> DEFINE r == req[c]
           row == [status |-> "POSTED", direction |-> "RECEIPT", amount |-> r.form,
                   alloc |-> r.share]
<1>1. /\ r # Idle /\ r.op = "receipt" /\ Answer(c) /\ UNCHANGED <<ledger, note>>
      /\ pay[p].status = "NONE"
      /\ inv' = [i \in Invoices |-> IF r.share[i] > 0 /\ Outstanding(i) <= r.share[i]
                                      THEN [inv[i] EXCEPT !.status = "PAID"] ELSE inv[i]]
      /\ pay' = [pay EXCEPT ![p] = row]
  BY DEF Receipt
<1>2. r \in Request /\ r.form \in Nat /\ r.share \in [Invoices -> Nat]
  BY <1>1, RequestTyped DEF Request
<1>3. row \in Payment /\ row.alloc = r.share
  BY <1>2 DEF Payment
<1>4. calm' => calm /\ r.share = Share(r.form)
  BY <1>1, AnsweredAlone DEF Current
<1>5. \A i \in Invoices : pay[p].alloc[i] = 0
  BY <1>1 DEF IInv, RowsOK, NoAlloc
<1> HIDE DEF row
<1>6. ASSUME NEW i \in Invoices
      PROVE  /\ Paid(i)' = Paid(i) + r.share[i] /\ Credited(i)' = Credited(i)
             /\ r.share[i] \in Nat /\ Paid(i) \in Nat /\ Credited(i) \in Nat
             /\ Outstanding(i) \in Int /\ inv[i] \in CustomerInvoice
  <2>1. Paid(i)' = Paid(i) + row.alloc[i] - pay[p].alloc[i]
    BY <1>1, <1>3, PaidMoves
  <2>2. /\ r.share[i] \in Nat /\ Paid(i) \in Nat /\ Credited(i) \in Nat
        /\ Outstanding(i) \in Int /\ inv[i] \in CustomerInvoice
    BY <1>2, SumsTyped DEF IInv, TypeOK
  <2>3. Paid(i)' = Paid(i) + r.share[i]
    BY <1>3, <1>5, <2>1, <2>2
  <2> QED
    BY <1>1, <2>2, <2>3, CreditedSame
<1>7. ASSUME calm', NEW i \in Invoices, r.share[i] > 0
      PROVE  /\ inv[i].status = "ISSUED" /\ Booked(i) /\ r.share[i] <= Outstanding(i)
  <2>1. r.share[i] <= Wanted(i) /\ calm
    BY <1>2, <1>4, <1>7, ShareTyped DEF IInv
  <2>2. Wanted(i) # 0
    BY <1>6, <1>7, <2>1, SumsTyped DEF Wanted, IInv
  <2>3. inv[i].status = "ISSUED" /\ Wanted(i) = Outstanding(i)
    BY <2>2 DEF Wanted, Owed
  <2> QED
    BY <2>1, <2>3 DEF CalmInv, RowsAgree
<1>8. ASSUME NEW i \in Invoices PROVE ItemMove(i)
  <2>1. Phase(i)' = Phase(i) /\ je'[i] = je[i]
    BY <1>1 DEF ledger, Phase
  <2>2. CASE r.share[i] = 0
    BY <1>6, <2>1, <2>2 DEF ItemMove
  <2>3. CASE r.share[i] > 0
    <3>1. Paid(i)' > Paid(i)
      BY <1>6, <2>3
    <3>2. ASSUME calm' PROVE Phase(i) = "open" /\ Paid(i)' <= je[i]
      <4>1. /\ Booked(i) /\ inv[i].status = "ISSUED" /\ r.share[i] <= Outstanding(i)
        BY <1>7, <2>3, <3>2
      <4>2. Phase(i) = "open" /\ inv[i].total = je[i]
        BY <4>1 DEF Booked, Phase
      <4>3. inv[i].total \in Nat
        BY <1>6 DEF CustomerInvoice
      <4>4. Outstanding(i) = inv[i].total - Paid(i) - Credited(i)
        BY DEF Outstanding
      <4> QED
        BY <1>6, <4>1, <4>2, <4>3, <4>4
    <3> QED
      BY <2>1, <3>1, <3>2 DEF ItemMove
  <2> QED
    BY <1>6, <2>2, <2>3
<1>9. ASSUME calm', NEW i \in Invoices PROVE Settled(i)' /\ Booked(i)'
  <2>1. Settled(i) /\ Booked(i)
    BY <1>4, <1>9 DEF CalmInv, RowsAgree
  <2>2. UNCHANGED <<refs[i], je[i]>>
    BY <1>1 DEF ledger
  <2>3. inv'[i].total = inv[i].total /\ inv[i].total \in Nat
    BY <1>1, <1>6 DEF CustomerInvoice
  <2>4. Outstanding(i)' = Outstanding(i) - r.share[i]
    BY <1>6, <2>3 DEF Outstanding
  <2>5. CASE r.share[i] > 0 /\ Outstanding(i) <= r.share[i]
    <3>1. inv'[i].status = "PAID"
      BY <1>1, <1>6, <2>5 DEF CustomerInvoice
    <3> QED
      BY <1>6, <2>4, <2>5, <3>1 DEF Settled, Booked
  <2>6. CASE ~(r.share[i] > 0 /\ Outstanding(i) <= r.share[i])
    <3>1. inv'[i] = inv[i]
      BY <1>1, <2>6
    <3> QED
      BY <1>6, <2>1, <2>2, <2>4, <3>1 DEF Settled, Booked
  <2> QED
    BY <2>5, <2>6
<1> QED
  BY <1>8, <1>9 DEF Moves, RowsAgree

(* Deleting a payment releases what it had settled, and reopens what was PAID by it. *)
LEMMA DeletePaymentMoves ==
  ASSUME IInv, CalmInv, NEW p \in Payments, DeletePayment(p)
  PROVE  Moves
<1> DEFINE row == [pay[p] EXCEPT !.status = "DELETED", !.alloc = NoAlloc]
<1>1. /\ Start /\ UNCHANGED <<ledger, note, req>>
      /\ inv' = [i \in Invoices |-> IF pay[p].alloc[i] > 0 /\ inv[i].status = "PAID"
                                      THEN [inv[i] EXCEPT !.status = "SENT"] ELSE inv[i]]
      /\ pay' = [pay EXCEPT ![p] = row]
  BY DEF DeletePayment, Reopened
<1>2. pay[p] \in Payment /\ inv \in [Invoices -> CustomerInvoice]
  BY DEF IInv, TypeOK
<1>3. row \in Payment /\ row.alloc = NoAlloc
  BY <1>2 DEF Payment, NoAlloc
<1>4. calm' => calm
  BY <1>1, StartedAlone
<1> HIDE DEF row
<1>5. ASSUME NEW i \in Invoices
      PROVE  /\ Paid(i)' = Paid(i) - pay[p].alloc[i] /\ Credited(i)' = Credited(i)
             /\ pay[p].alloc[i] \in Nat /\ Paid(i) \in Nat
  <2>1. Paid(i)' = Paid(i) + row.alloc[i] - pay[p].alloc[i]
    BY <1>1, <1>3, PaidMoves
  <2>2. row.alloc[i] = 0 /\ pay[p].alloc[i] \in Nat /\ Paid(i) \in Nat
    BY <1>2, <1>3, SumsTyped DEF IInv, Payment, NoAlloc
  <2> QED
    BY <1>1, <2>1, <2>2, CreditedSame
<1>6. ASSUME NEW i \in Invoices PROVE ItemMove(i)
  <2>1. Phase(i)' = Phase(i) /\ je'[i] = je[i]
    BY <1>1 DEF ledger, Phase
  <2>2. Paid(i)' = Paid(i) \/ Paid(i)' < Paid(i)
    BY <1>5
  <2> QED
    BY <2>1, <2>2 DEF ItemMove
<1>7. ASSUME calm', NEW i \in Invoices PROVE Settled(i)' /\ Booked(i)'
  <2>1. RowsAgree /\ UNCHANGED <<refs[i], je[i]>>
    BY <1>1, <1>4, <1>7 DEF CalmInv, ledger
  <2>2. CASE pay[p].alloc[i] > 0 /\ inv[i].status = "PAID"
    <3>1. inv'[i].status = "SENT"
      BY <1>1, <1>2, <2>2 DEF CustomerInvoice
    <3> QED
      BY <3>1 DEF Settled, Booked
  <2>3. CASE inv[i].status # "PAID"
    <3>1. inv'[i] = inv[i]
      BY <1>1, <2>3
    <3> QED
      BY <2>1, <2>3, <3>1 DEF Settled, Booked, RowsAgree
  <2>4. CASE pay[p].alloc[i] = 0
    <3>1. inv'[i] = inv[i] /\ Paid(i)' = Paid(i) /\ Credited(i)' = Credited(i)
      BY <1>1, <1>5, <2>4
    <3> QED
      BY <2>1, <3>1, AgreeKept
  <2> QED
    BY <1>5, <2>2, <2>3, <2>4
<1> QED
  BY <1>6, <1>7 DEF Moves, RowsAgree

(* A draft credit note moves no item. *)
LEMMA CreateNoteMoves ==
  ASSUME IInv, CalmInv, NEW n \in Notes, NEW i \in Invoices \cup {Detached}, NEW a \in Amounts,
         CreateNote(n, i, a)
  PROVE  Moves
<1> DEFINE row == [status |-> "DRAFT", invoice |-> i, amount |-> a]
<1>1. /\ Start /\ UNCHANGED <<inv, ledger, pay, req>>
      /\ note' = [note EXCEPT ![n] = row] /\ note[n].status = "NONE"
  BY DEF CreateNote
<1>2. row \in CreditNote /\ row.status = "DRAFT"
  BY AmountAssumption DEF CreditNote
<1> HIDE DEF row
<1>3. ASSUME NEW j \in Invoices PROVE Paid(j)' = Paid(j) /\ Credited(j)' = Credited(j)
  <2>1. Credited(j)' = Credited(j) + Credit(row, j) - Credit(note[n], j)
    BY <1>1, <1>2, CreditMoves
  <2>2. Credit(row, j) = 0 /\ Credit(note[n], j) = 0 /\ Credited(j) \in Nat
    BY <1>1, <1>2, SumsTyped DEF Credit, IInv
  <2> QED
    BY <1>1, <2>1, <2>2, AllocsSame
<1> QED
  BY <1>1, <1>3, StartedAlone, QuietMoves

(* Posting a credit note leaves an invoice PAID only with nothing due. *)
LEMMA PostNoteMoves ==
  ASSUME IInv, CalmInv, NEW n \in Notes, PostNote(n)
  PROVE  Moves
<1> DEFINE k == note[n].invoice
           row == [note[n] EXCEPT !.status = "POSTED"]
           amount == note[n].amount
<1>1. /\ Start /\ UNCHANGED <<ledger, pay, req>>
      /\ note[n].status = "DRAFT"
      /\ note' = [note EXCEPT ![n] = row]
      /\ inv' = IF k # Detached /\ Outstanding(k) <= amount
                  THEN [inv EXCEPT ![k].status = "PAID"] ELSE inv
  BY DEF PostNote
<1>2. note[n] \in CreditNote /\ inv \in [Invoices -> CustomerInvoice]
  BY DEF IInv, TypeOK
<1>3. /\ row \in CreditNote /\ row.status = "POSTED" /\ row.invoice = k /\ row.amount = amount
      /\ amount \in Nat /\ k \in Invoices \cup {Detached}
  BY <1>2 DEF CreditNote
<1>4. calm' => calm
  BY <1>1, StartedAlone
<1>5. \A i \in Invoices : Credit(note[n], i) = 0
  BY <1>1 DEF Credit
<1> HIDE DEF row, k, amount
<1>6. ASSUME NEW i \in Invoices
      PROVE  /\ Paid(i)' = Paid(i) /\ Paid(i) \in Nat /\ Credited(i) \in Nat
             /\ Credited(i)' = Credited(i) + IF i = k THEN amount ELSE 0
             /\ Outstanding(i) \in Int
  <2>1. Credited(i)' = Credited(i) + Credit(row, i) - Credit(note[n], i)
    BY <1>1, <1>3, CreditMoves
  <2>2. Credit(row, i) = IF i = k THEN amount ELSE 0
    BY <1>3 DEF Credit
  <2>3. Paid(i) \in Nat /\ Credited(i) \in Nat /\ Outstanding(i) \in Int
    BY SumsTyped DEF IInv
  <2> QED
    BY <1>1, <1>3, <1>5, <2>1, <2>2, <2>3, AllocsSame
<1>7. \A i \in Invoices : ItemMove(i)
  BY <1>1, <1>6, NoMove
<1>8. ASSUME calm', NEW i \in Invoices PROVE Settled(i)' /\ Booked(i)'
  <2>1. Settled(i) /\ Booked(i) /\ UNCHANGED <<refs[i], je[i]>>
    BY <1>1, <1>4, <1>8 DEF CalmInv, RowsAgree, ledger
  <2>2. inv'[i].total = inv[i].total /\ inv[i].total \in Nat
    BY <1>1, <1>2, <1>3 DEF CustomerInvoice
  <2>3. Outstanding(i)' = Outstanding(i) - IF i = k THEN amount ELSE 0
    BY <1>3, <1>6, <2>2 DEF Outstanding
  <2>4. CASE i = k /\ Outstanding(k) <= amount
    <3>1. inv'[i].status = "PAID"
      BY <1>1, <1>2, <2>4, DetachedAssumption DEF CustomerInvoice
    <3> QED
      BY <1>3, <1>6, <2>3, <2>4, <3>1 DEF Settled, Booked
  <2>5. CASE ~(i = k /\ Outstanding(k) <= amount)
    <3>1. inv'[i] = inv[i]
      BY <1>1, <1>2, <1>3, <2>5
    <3> QED
      BY <1>3, <1>6, <2>1, <2>3, <3>1 DEF Settled, Booked
  <2> QED
    BY <2>4, <2>5
<1> QED
  BY <1>7, <1>8 DEF Moves, RowsAgree
-----------------------------------------------------------------------------
(* What a request read stands as long as no row is written. *)
LEMMA CurrentKept ==
  ASSUME NEW r, r.op \in Ops \cup {"receipt"}, Current(r), UNCHANGED <<inv, pay, note>>
  PROVE  Current(r)'
<1>1. ASSUME NEW i PROVE Paid(i)' = Paid(i) /\ Credited(i)' = Credited(i)
  BY DEF Paid, Credited
<1>2. ASSUME NEW i PROVE Outstanding(i)' = Outstanding(i) /\ (Exists(i)' <=> Exists(i))
  BY <1>1 DEF Outstanding, Exists
<1>3. ASSUME NEW i PROVE Owed(i)' = Owed(i)
  BY <1>2 DEF Owed
<1>4. ASSUME NEW i PROVE Wanted(i)' = Wanted(i)
  BY <1>3 DEF Wanted
<1>5. ASSUME NEW i PROVE Before(i)' = Before(i)
  BY <1>4 DEF Before
<1>6. Share(r.form)' = Share(r.form)
  BY <1>4, <1>5 DEF Share
<1>7. Exposure' = Exposure
  BY <1>3 DEF Exposure
<1>8. ASSUME NEW i PROVE CreditOk(inv[i].total)' <=> CreditOk(inv[i].total)
  BY <1>7 DEF CreditOk
<1>9. ASSUME NEW op \in Ops, NEW i, Admits(op, i) PROVE Admits(op, i)'
  <2>1. CASE op = "issue"
    BY <1>8, <1>9, <2>1 DEF Admits
  <2>2. CASE op = "send"
    BY <1>8, <1>9, <2>2 DEF Admits
  <2>3. CASE op = "cancel" \/ op = "refund"
    BY <1>1, <1>9, <2>3 DEF Admits
  <2>4. CASE op = "edit" \/ op = "delete"
    BY <1>9, <2>4 DEF Admits
  <2> QED
    BY <2>1, <2>2, <2>3, <2>4 DEF Ops
<1> QED
  BY <1>2, <1>6, <1>9 DEF Current

(* A request that starts alone reads what stands. *)
LEMMA LoadedCurrent ==
  ASSUME IInv, NEW c \in Clients, NEW r, r.op \in Ops \cup {"receipt"}, Current(r), Start,
         req' = [req EXCEPT ![c] = r], UNCHANGED <<inv, pay, note>>
  PROVE  calm' => Alone' /\ Fresh'
<1> SUFFICES ASSUME calm' PROVE Alone' /\ Fresh'
  OBVIOUS
<1>1. Quiet
  BY StartedAlone
<1>2. \A d \in Clients : req'[d] # Idle => d = c /\ req'[d] = r
  BY <1>1 DEF IInv, TypeOK, Quiet
<1>3. Current(r)'
  BY CurrentKept
<1> QED
  BY <1>2, <1>3 DEF Alone, Fresh

(* Every other step leaves no request under way while calm. *)
LEMMA RequestsCurrent ==
  ASSUME IInv, CalmInv, [Next]_vars
  PROVE  calm' => Alone' /\ Fresh'
<1>1. ASSUME Start, UNCHANGED req PROVE calm' => Alone' /\ Fresh'
  <2>1. calm' => Quiet'
    BY <1>1, StartedAlone DEF Quiet
  <2> QED
    BY <2>1, QuietFresh
<1>2. ASSUME NEW c \in Clients, req[c] # Idle, Answer(c) PROVE calm' => Alone' /\ Fresh'
  BY <1>2, AnsweredAlone, QuietFresh
<1>3. ASSUME NEW c \in Clients, NEW i \in Invoices, NEW op \in Ops, NEW form, NEW b,
             Load(c, op, i, form, b)
      PROVE  calm' => Alone' /\ Fresh'
  <2>1. PICK r : r = [op |-> op, inv |-> i, seen |-> inv[i].status, form |-> form, issue |-> b,
                      share |-> NoAlloc]
    OBVIOUS
  <2>2. op # "receipt"
    BY DEF Ops
  <2>3. Current(r) /\ r.op \in Ops
    BY <1>3, <2>1, <2>2 DEF Load, Current
  <2> QED
    BY <1>3, <2>1, <2>3, LoadedCurrent DEF Load
<1>4. ASSUME NEW c \in Clients, NEW a \in Amounts, LoadReceipt(c, a)
      PROVE  calm' => Alone' /\ Fresh'
  <2>1. PICK r : r = [op |-> "receipt", inv |-> Detached, seen |-> "NONE", form |-> a,
                      issue |-> FALSE, share |-> Share(a)]
    OBVIOUS
  <2>2. Current(r)
    BY <2>1 DEF Current
  <2> QED
    BY <1>4, <2>1, <2>2, LoadedCurrent DEF LoadReceipt
<1>5. CASE UNCHANGED vars
  <2>1. UNCHANGED <<inv, pay, note, req, overlaps>>
    BY <1>5 DEF vars
  <2>2. calm' => Alone /\ Fresh
    BY <2>1 DEF CalmInv, calm
  <2>3. Alone => Alone'
    BY <2>1 DEF Alone
  <2>4. Fresh => Fresh'
    <3> SUFFICES ASSUME Fresh, NEW c \in Clients, req'[c] # Idle PROVE Current(req[c])'
      BY DEF Fresh
    <3>1. PICK r : r = req[c]
      OBVIOUS
    <3>2. Current(r) /\ r.op \in Ops \cup {"receipt"}
      BY <2>1, <3>1 DEF Fresh, IInv, TypeOK, Request
    <3>3. Current(r)' /\ r = req'[c]
      BY <2>1, <3>1, <3>2, CurrentKept
    <3> QED
      BY <3>3 DEF Current
  <2> QED
    BY <2>2, <2>3, <2>4
<1>6. ASSUME NEW i, NEW t, NEW b, Create(i, t, b) PROVE calm' => Alone' /\ Fresh'
  BY <1>1, <1>6 DEF Create
<1>7. ASSUME NEW p, NEW a, RefundCustomer(p, a) PROVE calm' => Alone' /\ Fresh'
  BY <1>1, <1>7 DEF RefundCustomer
<1>8. ASSUME NEW p, DeletePayment(p) PROVE calm' => Alone' /\ Fresh'
  BY <1>1, <1>8 DEF DeletePayment
<1>9. ASSUME NEW n, NEW i, NEW a, CreateNote(n, i, a) PROVE calm' => Alone' /\ Fresh'
  BY <1>1, <1>9 DEF CreateNote
<1>10. ASSUME NEW n, PostNote(n) PROVE calm' => Alone' /\ Fresh'
  BY <1>1, <1>10 DEF PostNote
<1>11. ASSUME NEW c \in Clients,
              \/ Issue(c) \/ Send(c) \/ Edit(c) \/ Delete(c) \/ Cancel(c) \/ Fail(c)
              \/ \E p \in Payments : Refund(c, p) \/ Receipt(c, p)
       PROVE  calm' => Alone' /\ Fresh'
  <2>1. req[c] # Idle /\ Answer(c)
    BY <1>11 DEF Issue, Send, Edit, Delete, Cancel, Fail, Refund, Receipt
  <2> QED
    BY <1>2, <2>1
<1>12. "edit" \in Ops
  BY DEF Ops
<1> QED
  BY <1>3, <1>4, <1>5, <1>6, <1>7, <1>8, <1>9, <1>10, <1>11, <1>12 DEF Next

(* No step at all moves no item. *)
LEMMA StutterMoves == ASSUME IInv, CalmInv, UNCHANGED vars PROVE Moves
<1>1. UNCHANGED <<inv, ledger, pay, note, overlaps>>
  BY DEF vars, ledger
<1> QED
  BY <1>1, LoadMoves

(* Every step moves the items as OpenItem allows ... *)
LEMMA StepMoves == ASSUME IInv, CalmInv, [Next]_vars PROVE Moves
<1>1. ASSUME NEW c \in Clients, NEW op, NEW i, NEW form, NEW b, Load(c, op, i, form, b)
      PROVE  Moves
  BY <1>1, LoadMoves DEF Load
<1>2. ASSUME NEW c \in Clients, NEW a, LoadReceipt(c, a) PROVE Moves
  BY <1>2, LoadMoves DEF LoadReceipt
<1>3. ASSUME NEW c \in Clients, Fail(c) PROVE Moves
  BY <1>3, LoadMoves DEF Fail, Answer
<1> QED
  BY <1>1, <1>2, <1>3, CreateMoves, InvoiceRequestMoves, RefundMoves, ReceiptMoves,
     RefundCustomerMoves, DeletePaymentMoves, CreateNoteMoves, PostNoteMoves, StutterMoves DEF Next

(* ... and keeps what holds while requests do not overlap ... *)
LEMMA CalmStep == IInv /\ CalmInv /\ [Next]_vars => CalmInv'
<1> SUFFICES ASSUME IInv, CalmInv, [Next]_vars PROVE CalmInv'
  OBVIOUS
<1>1. calm' => RowsAgree'
  BY StepMoves DEF Moves
<1>2. calm' => Alone' /\ Fresh'
  BY RequestsCurrent
<1> QED
  BY <1>1, <1>2 DEF CalmInv

(* ... which holds to begin with ... *)
LEMMA CalmInit == Init => CalmInv
  BY DEF Init, CalmInv, Alone, Fresh, RowsAgree, Settled, Booked

(* ... and so in every state. *)
LEMMA CalmInvariance == Spec => []CalmInv
  BY CalmInit, CalmStep, Invariance, PTL DEF Spec

(* While requests do not overlap, whatever was received, credited, refunded or
   deleted leaves no PAID invoice with something due (PaidIsSettled). *)
THEOREM PaidMeansSettled == Spec => []PaidIsSettled
<1>1. CalmInv => PaidIsSettled
  BY DEF CalmInv, RowsAgree, Settled, PaidIsSettled
<1> QED
  BY <1>1, CalmInvariance, PTL

(* The sales ledger implements OpenItem: an invoice is booked once, takes money
   only while open and up to what was booked, and is written back at most once,
   with no money on it (ItemSpec). *)
THEOREM LedgerKeepsItsPromise == Spec => ItemSpec
<1>1. Init => Item!Init
  <2> SUFFICES ASSUME Init PROVE Item!Init
    OBVIOUS
  <2>1. \A i \in Invoices : Phase(i) = "new"
    BY DEF Init, Phase
  <2>2. \A i \in Invoices : Paid(i) = 0
    <3> SUFFICES ASSUME NEW i \in Invoices PROVE Paid(i) = 0
      OBVIOUS
    <3> DEFINE f == [p \in Payments |-> pay[p].alloc[i]]
    <3>1. f \in [Payments -> Int] /\ \A p \in Payments : f[p] = 0
      BY DEF Init, NoAlloc
    <3> HIDE DEF f
    <3>2. SumFunction(f) = 0
      BY <3>1, FiniteAssumption, SumZero
    <3> QED
      BY <3>2 DEF f, Paid
  <2>3. je = [i \in Invoices |-> 0] /\ calm
    BY DEF Init, calm
  <2> QED
    BY <2>1, <2>2, <2>3 DEF Item!Init
<1>2. IInv /\ CalmInv /\ [Next]_vars => [Item!Next]_Item!vars
  <2> SUFFICES ASSUME IInv, CalmInv, [Next]_vars PROVE Item!Next
    OBVIOUS
  <2>1. \A i \in Invoices : ItemMove(i)
    BY StepMoves DEF Moves
  <2>2. calm' => calm
    <3>1. Start \/ UNCHANGED overlaps
      BY DEF Next, vars, Create, Load, LoadReceipt, Issue, Send, Edit, Delete, Cancel, Fail,
             Refund, Receipt, RefundCustomer, DeletePayment, CreateNote, PostNote, Answer
    <3> QED
      BY <3>1, StartedAlone DEF calm
  <2>3. ASSUME NEW i \in Invoices
        PROVE  Item!Book(i) \/ Item!Settle(i) \/ Item!Release(i) \/ Item!WriteBack(i) \/ Item!Keep(i)
    <3>1. ItemMove(i)
      BY <2>1
    <3> QED
      BY <3>1 DEF ItemMove, Item!Book, Item!Settle, Item!Release, Item!WriteBack, Item!Keep
  <2> QED
    BY <2>2, <2>3 DEF Item!Next
<1> QED
  BY <1>1, <1>2, Invariance, CalmInvariance, PTL DEF Spec, ItemSpec, Item!Spec
-----------------------------------------------------------------------------
(* Booking what fits under the limit leaves the customer within it. *)
LEMMA BookExposure ==
  ASSUME IInv, NEW i \in Invoices, NEW total \in Nat, NEW s, Book(i, total, s),
         UNCHANGED <<pay, note>>, CreditOk(total), CreditLimit > 0
  PROVE  Exposure' <= CreditLimit
<1> DEFINE f == [j \in Invoices |-> Owed(j)]
           h == [j \in Invoices |-> Owed(j)']
           row == [status |-> s, total |-> total, deleted |-> FALSE]
<1>1. inv' = [inv EXCEPT ![i] = row] /\ inv \in [Invoices -> CustomerInvoice] /\ row.total = total
  BY DEF Book, IInv, TypeOK
<1>2. \A j \in Invoices : Paid(j)' = Paid(j) /\ Credited(j)' = Credited(j)
  BY AllocsSame, CreditedSame
<1>3. \A j \in Invoices : Paid(j) \in Nat /\ Credited(j) \in Nat /\ Owed(j) \in Nat
  BY SumsTyped DEF IInv
<1> HIDE DEF row
<1>4. inv'[i] = row /\ \A j \in Invoices \ {i} : inv'[j] = inv[j]
  BY <1>1
<1>5. Owed(i)' \in Nat /\ Owed(i)' <= total
  <2>1. Outstanding(i)' = total - Paid(i) - Credited(i)
    BY <1>1, <1>2, <1>4 DEF Outstanding
  <2>2. Outstanding(i)' \in Int /\ Outstanding(i)' <= total
    BY <1>3, <2>1
  <2>3. Owed(i)' = 0 \/ (Outstanding(i)' > 0 /\ Owed(i)' = Outstanding(i)')
    BY DEF Owed
  <2> QED
    BY <2>2, <2>3
<1>6. \A j \in Invoices \ {i} : Owed(j)' = Owed(j)
  <2> SUFFICES ASSUME NEW j \in Invoices \ {i} PROVE Owed(j)' = Owed(j)
    OBVIOUS
  <2>1. Outstanding(j)' = Outstanding(j) /\ (Exists(j)' <=> Exists(j)) /\ inv'[j] = inv[j]
    BY <1>2, <1>4 DEF Outstanding, Exists
  <2> QED
    BY <2>1 DEF Owed
<1>7. f \in [Invoices -> Int] /\ h \in [Invoices -> Int]
  BY <1>3, <1>5, <1>6
<1>8. f[i] = Owed(i) /\ h[i] = Owed(i)' /\ \A j \in Invoices \ {i} : h[j] = f[j]
  BY <1>6
<1>9. Exposure = SumFunction(f) /\ Exposure' = SumFunction(h)
  BY DEF Exposure
<1> HIDE DEF f, h
<1>10. SumFunction(h) = SumFunction(f) + h[i] - f[i] /\ SumFunction(f) \in Int
  BY <1>7, <1>8, FiniteAssumption, SumUpdate, SumInteger
<1>11. Exposure + total <= CreditLimit
  BY DEF CreditOk
<1> QED
  BY <1>3, <1>5, <1>8, <1>9, <1>10, <1>11, AmountAssumption

(* Only booking raises a receivable. *)
LEMMA OnlyBookingRaises ==
  ASSUME IInv, [Next]_vars, NEW i \in Invoices, ar'[i] > ar[i],
         \A c \in Clients : req[c] # Idle => req[c].op # "edit"
  PROVE  \/ \E j \in Invoices, t \in Totals, b \in BOOLEAN : Create(j, t, b) /\ UNCHANGED <<pay, note>>
         \/ \E c \in Clients : Issue(c) \/ Send(c)
<1>1. ar \in [Invoices -> Int] /\ je \in [Invoices -> Nat]
  BY DEF IInv, TypeOK
<1>2. ASSUME UNCHANGED ledger PROVE FALSE
  BY <1>1, <1>2 DEF ledger
<1>3. ASSUME NEW c \in Clients, Cancel(c) PROVE FALSE
  <2> DEFINE k == req[c].inv
  <2>1. k \in Invoices
    BY <1>3, RequestTyped DEF Cancel
  <2>2. WriteBack(k)
    BY <1>2, <1>3 DEF Cancel
  <2>3. ar' = [ar EXCEPT ![k] = @ - je[k]]
    BY <2>2 DEF WriteBack
  <2> HIDE DEF k
  <2>4. ar'[i] = ar[i] \/ ar'[i] = ar[i] - je[i]
    BY <1>1, <2>1, <2>3
  <2> QED
    BY <1>1, <2>4
<1>4. ASSUME NEW c \in Clients, Edit(c) PROVE FALSE
  BY <1>4 DEF Edit
<1> QED
  BY <1>2, <1>3, <1>4
     DEF Next, Create, Load, LoadReceipt, Delete, Fail, Refund, Receipt, RefundCustomer,
         DeletePayment, CreateNote, PostNote, vars, ledger

(* A step that books an invoice leaves the customer within the credit limit. *)
LEMMA StepWithinCredit ==
  ASSUME IInv, CalmInv, [Next]_vars, calm', CreditLimit > 0, NEW i \in Invoices, ar'[i] > ar[i],
         \A c \in Clients : req[c] # Idle => req[c].op # "edit"
  PROVE  Exposure' <= CreditLimit
<1>1. ~UNCHANGED ledger
  <2>1. ar[i] \in Int
    BY DEF IInv, TypeOK
  <2> QED
    BY <2>1 DEF ledger
<1>2. ASSUME NEW j \in Invoices, NEW t \in Totals, NEW b \in BOOLEAN, Create(j, t, b),
             UNCHANGED <<pay, note>>
      PROVE  Exposure' <= CreditLimit
  <2>1. CreditOk(t) /\ Book(j, t, "ISSUED") /\ t \in Nat
    BY <1>1, <1>2, AmountAssumption DEF Create, Post
  <2> QED
    BY <1>2, <2>1, BookExposure
<1>3. ASSUME NEW c \in Clients, Issue(c) \/ Send(c) PROVE Exposure' <= CreditLimit
  <2> DEFINE k == req[c].inv
             total == inv[k].total
  <2>1. /\ req[c] # Idle /\ req[c].op \in {"issue", "send"} /\ Answer(c)
        /\ UNCHANGED <<pay, note>>
    BY <1>3 DEF Issue, Send
  <2>2. k \in Invoices /\ total \in Nat
    <3>1. k \in Invoices
      BY <2>1, RequestTyped
    <3> QED
      BY <3>1 DEF IInv, TypeOK, CustomerInvoice
  <2>3. Current(req[c])
    BY <2>1, AnsweredAlone
  <2>4. (\E s : Book(k, total, s)) /\ (req[c].op = "issue" \/ req[c].seen = "DRAFT")
    BY <1>1, <1>3 DEF Issue, Send, Post
  <2>5. CreditOk(total)
    <3>1. Admits(req[c].op, k) /\ req[c].seen = inv[k].status
      BY <2>1, <2>3 DEF Current
    <3>2. CASE req[c].op = "issue"
      BY <3>1, <3>2 DEF Admits
    <3>3. CASE req[c].op = "send" /\ req[c].seen = "DRAFT"
      BY <3>1, <3>3 DEF Admits
    <3> QED
      BY <2>1, <2>4, <3>2, <3>3
  <2> HIDE DEF k, total
  <2>6. PICK s : Book(k, total, s)
    BY <2>4
  <2> QED
    BY <2>1, <2>2, <2>5, <2>6, BookExposure
<1> QED
  BY <1>2, <1>3, OnlyBookingRaises

(* While requests do not overlap, what the issue, send and create screens book
   leaves the customer within the credit limit (BookedWithinCredit). *)
THEOREM BookingsFitCredit == Spec => BookedWithinCredit
<1> DEFINE Fits == calm' /\ CreditLimit > 0
                     => \A i \in Invoices :
                          ar'[i] > ar[i] /\ (\A c \in Clients : req[c] # Idle => req[c].op # "edit")
                            => Exposure' <= CreditLimit
<1>1. IInv /\ CalmInv /\ [Next]_vars => [Fits]_vars
  BY StepWithinCredit
<1> QED
  BY <1>1, Invariance, CalmInvariance, PTL DEF Spec, BookedWithinCredit

-----------------------------------------------------------------------------
(* What recurs by the day: a template, a quote and the reminders of an overdue invoice. *)

(* The row t has been followed so far: each of its dates has its invoice. *)
NoneSkipped(t) ==
  /\ t \in RecurringInvoice /\ t.start = tmpl.start
  /\ \A d \in Days : t.start <= d /\ d < t.next => made[d] >= 1

JobOK(r) ==
  /\ r \in Job
  /\ r.op \in {"pass", "generate"} => r.day \in 0 .. today
  /\ \/ /\ r.op = "pass" /\ r.phase \in {"expire", "generate", "remind", "sent", "finish"}
        /\ r.phase = "generate" => NoneSkipped(r.seen)
     \/ r.op = "generate" /\ r.phase = "commit" /\ NoneSkipped(r.seen)
     \/ r.op = "edit" /\ r.phase \in {"open", "commit"} /\ NoneSkipped(r.seen)
     \/ r.op = "send" /\ r.phase = "commit" /\ r.seen \in QuoteStatuses

SchedulesTyped ==
  /\ today \in Days /\ last \in Days \cup {Never}
  /\ made \in [Days -> Nat] /\ mails \in [Days -> Nat] /\ dunned \in Days \cup {Never}
  /\ quote \in QuoteStatuses
  /\ mishaps \in 0 .. MaxMishaps
  /\ job = [j \in Jobs |-> job[j]]

Busy(j) == job[j] # NoJob
OneJob == \A j, k \in Jobs : Busy(j) /\ Busy(k) => j = k

(* The invoices are those of the row t, each once, within its end and its number. *)
OnSchedule(t) ==
  /\ t.next = t.start + t.count /\ t.count <= MaxOccurrences
  /\ t.count > 0 => t.next - 1 <= EndDate
  /\ \A d \in Days : made[d] = IF t.start <= d /\ d < t.next THEN 1 ELSE 0

(* A pass that generates is ahead of the template; a request has read it as it is. *)
ScheduleStands ==
  /\ (\A j \in Jobs : ~At(j, "generate")) => OnSchedule(tmpl)
  /\ \A j \in Jobs :
       /\ At(j, "generate") => OnSchedule(job[j].seen)
       /\ Busy(j) /\ job[j].op \in {"generate", "edit"} =>
            job[j].seen.next = tmpl.next /\ job[j].seen.count = tmpl.count

(* The last mail is that of the date saved, or of the pass that has yet to save it. *)
MailsApart ==
  /\ \A d \in Days : mails[d] <= 1
  /\ \A d, e \in Days : mails[d] > 0 /\ mails[e] > 0 /\ d < e => e - d >= Interval
RemindersStand ==
  /\ MailsApart
  /\ (\A j \in Jobs : ~At(j, "sent")) => \A d \in Days : mails[d] > 0 => dunned # Never /\ d <= dunned
  /\ \A j \in Jobs : At(j, "sent") => \A d \in Days : mails[d] > 0 => d <= job[j].day

SmoothInv == OneJob /\ ScheduleStands /\ RemindersStand

ScheduleInv ==
  /\ SchedulesTyped /\ NoneSkipped(tmpl)
  /\ \A j \in Jobs : Busy(j) => JobOK(job[j])
  /\ smooth => SmoothInv

-----------------------------------------------------------------------------
(* How often the loop turns: never past the cap, the number of occurrences, today or the
   end date. *)
LEMMA TurnsWithin ==
  ASSUME NEW t \in RecurringInvoice, NEW day \in Nat
  PROVE  /\ Turns(t, day) \in 0 .. SafetyCap
         /\ Turns(t, day) > 0 => /\ t.count + Turns(t, day) <= MaxOccurrences
                                 /\ t.next + Turns(t, day) - 1 <= day
                                 /\ t.next + Turns(t, day) - 1 <= EndDate
<1> DEFINE bound == Min({day, EndDate})
           S == {0} \cup {k \in 1 .. SafetyCap : t.count + k <= MaxOccurrences /\ t.next + k - 1 <= bound}
<1>1. t.count \in Nat /\ t.next \in Nat /\ EndDate \in Nat /\ MaxOccurrences \in Nat /\ SafetyCap \in Nat
  BY DayAssumption, CountAssumption DEF RecurringInvoice
<1>2. bound \in Int /\ bound <= day /\ bound <= EndDate
  <2>1. \E x \in {day, EndDate} : \A y \in {day, EndDate} : x <= y BY <1>1
  <2>2. bound \in {day, EndDate} /\ \A y \in {day, EndDate} : bound <= y BY <2>1 DEF Min
  <2> QED BY <1>1, <2>2
<1> HIDE DEF bound
<1>3. \E m \in S : \A y \in S : m >= y
  <2>1. PICK a \in Int : a <= SafetyCap /\ a <= MaxOccurrences - t.count /\ a <= bound - t.next + 1
                         /\ (a = SafetyCap \/ a = MaxOccurrences - t.count \/ a = bound - t.next + 1)
    <3>1. PICK x \in Int : x <= SafetyCap /\ x <= MaxOccurrences - t.count
                           /\ (x = SafetyCap \/ x = MaxOccurrences - t.count)
      BY <1>1
    <3>2. CASE x <= bound - t.next + 1 BY <1>1, <1>2, <3>1, <3>2
    <3>3. CASE bound - t.next + 1 <= x
      <4>1. bound - t.next + 1 \in Int BY <1>1, <1>2
      <4>2. bound - t.next + 1 <= SafetyCap /\ bound - t.next + 1 <= MaxOccurrences - t.count
        BY <1>1, <1>2, <3>1, <3>3
      <4> QED BY <4>1, <4>2
    <3> QED BY <1>1, <1>2, <3>1, <3>2, <3>3
  <2>2. CASE a >= 1
    <3>1. a \in S BY <1>1, <1>2, <2>1, <2>2
    <3>2. \A y \in S : a >= y BY <1>1, <1>2, <2>1, <2>2
    <3> QED BY <3>1, <3>2
  <2>3. CASE a <= 0
    <3>1. \A y \in S : 0 >= y BY <1>1, <1>2, <2>1, <2>3
    <3> QED BY <3>1
  <2> QED BY <2>1, <2>2, <2>3
<1>4. Max(S) \in S BY <1>3 DEF Max
<1>5. Turns(t, day) = IF ~t.active THEN 0 ELSE Max(S) BY DEF Turns, bound
<1>6. /\ Max(S) \in 0 .. SafetyCap
      /\ Max(S) > 0 => t.count + Max(S) <= MaxOccurrences /\ t.next + Max(S) - 1 <= bound
  <2>1. PICK m : m = Max(S) OBVIOUS
  <2>2. m \in S BY <1>4, <2>1
  <2>3. m \in 0 .. SafetyCap /\ (m > 0 => t.count + m <= MaxOccurrences /\ t.next + m - 1 <= bound)
    BY <1>1, <1>2, <2>2
  <2> QED BY <2>1, <2>3
<1> HIDE DEF S
<1> QED BY <1>1, <1>2, <1>5, <1>6

(* What a row has been followed by stays made. *)
LEMMA NoneSkippedStays ==
  ASSUME NEW t, NoneSkipped(t), SchedulesTyped, SchedulesTyped', tmpl'.start = tmpl.start,
         \A d \in Days : made'[d] >= made[d]
  PROVE  NoneSkipped(t)'
<1>1. \A d \in Days : made[d] \in Nat /\ made'[d] \in Nat BY DEF SchedulesTyped
<1> QED BY <1>1, DayAssumption DEF NoneSkipped, Days

LEMMA JobStays ==
  ASSUME NEW r, JobOK(r), SchedulesTyped, SchedulesTyped', tmpl'.start = tmpl.start, today' >= today,
         \A d \in Days : made'[d] >= made[d]
  PROVE  JobOK(r)'
<1>1. NoneSkipped(r.seen) => NoneSkipped(r.seen)' BY NoneSkippedStays
<1>2. r.day \in 0 .. today => r.day \in 0 .. today' BY DayAssumption DEF SchedulesTyped, Days
<1> QED BY <1>1, <1>2 DEF JobOK

(* What a step has to show: about the job it writes, and, while all goes smoothly, about
   the template and the mails, the job being the only one. *)
JobWritten(j, r) ==
  /\ job' = [job EXCEPT ![j] = r]
  /\ r # NoJob => JobOK(r)'
  /\ (IF \A k \in Jobs : ~Busy(k) THEN TRUE ELSE smooth' => Busy(j))
  /\ smooth' => smooth

SmoothAfter(r) ==
  /\ IF r # NoJob /\ r.phase = "generate" THEN OnSchedule(r.seen)' ELSE OnSchedule(tmpl)'
  /\ r # NoJob /\ r.op \in {"generate", "edit"} =>
       r.seen.next = tmpl'.next /\ r.seen.count = tmpl'.count
  /\ MailsApart'
  /\ IF r # NoJob /\ r.phase = "sent"
       THEN \A d \in Days : mails'[d] > 0 => d <= r.day
       ELSE \A d \in Days : mails'[d] > 0 => dunned' # Never /\ d <= dunned'

LEMMA Written ==
  ASSUME ScheduleInv, NEW j \in Jobs, NEW r, JobWritten(j, r),
         SchedulesTyped', NoneSkipped(tmpl)', tmpl'.start = tmpl.start, today' >= today,
         \A d \in Days : made'[d] >= made[d],
         smooth' /\ smooth /\ SmoothInv => SmoothAfter(r)
  PROVE  ScheduleInv'
<1>1. job'[j] = r /\ \A k \in Jobs \ {j} : job'[k] = job[k]
  BY DEF JobWritten, ScheduleInv, SchedulesTyped
<1>2. \A k \in Jobs : Busy(k)' => JobOK(job[k])'
  <2> SUFFICES ASSUME NEW k \in Jobs, job'[k] # NoJob PROVE JobOK(job[k])' BY DEF Busy
  <2> DEFINE new == job'[k]
  <2>1. PICK s : s = job'[k] OBVIOUS
  <2>2. JobOK(s)'
    <3>1. CASE k = j BY <1>1, <2>1, <3>1 DEF JobWritten
    <3>2. CASE k # j
      <4>1. JobOK(s) BY <1>1, <2>1, <3>2 DEF ScheduleInv, Busy
      <4> QED BY <4>1, JobStays DEF ScheduleInv
    <3> QED BY <3>1, <3>2
  <2> QED BY <2>1, <2>2 DEF JobOK, NoneSkipped
<1>3. ASSUME smooth' PROVE SmoothInv'
  <2>1. smooth /\ SmoothInv BY <1>3 DEF JobWritten, ScheduleInv
  <2>2. \A k \in Jobs \ {j} : job'[k] = NoJob
    BY <1>1, <1>3, <2>1 DEF SmoothInv, OneJob, JobWritten, Busy
  <2>3. OneJob' BY <2>2 DEF OneJob, Busy
  <2>4. \A k \in Jobs \ {j} : ~Busy(k)' /\ ~At(k, "generate")' /\ ~At(k, "sent")'
    BY <2>2 DEF At, Busy
  <2>5. /\ At(j, "generate")' <=> r # NoJob /\ r.phase = "generate"
        /\ At(j, "sent")' <=> r # NoJob /\ r.phase = "sent"
        /\ Busy(j)' <=> r # NoJob
    BY <1>1 DEF At, Busy
  <2>6. OnSchedule(job[j].seen)' <=> OnSchedule(r.seen)' BY <1>1 DEF OnSchedule
  <2>7. ScheduleStands' BY <1>1, <1>3, <2>1, <2>4, <2>5, <2>6 DEF ScheduleStands, SmoothAfter
  <2>8. RemindersStand' BY <1>1, <1>3, <2>1, <2>4, <2>5 DEF RemindersStand, SmoothAfter
  <2> QED BY <2>3, <2>7, <2>8 DEF SmoothInv
<1> QED BY <1>2, <1>3 DEF ScheduleInv

-----------------------------------------------------------------------------
LEMMA SchedulesBegin == InitSchedules => ScheduleInv
<1> SUFFICES ASSUME InitSchedules PROVE ScheduleInv OBVIOUS
<1>1. PICK d \in Starts : tmpl = [active |-> TRUE, start |-> d, next |-> d, count |-> 0]
  BY DEF InitSchedules
<1>2. d \in Nat BY DayAssumption
<1>3. SchedulesTyped
  BY DayAssumption, MishapAssumption DEF InitSchedules, SchedulesTyped, Days, QuoteStatuses, Expirable
<1>4. tmpl \in RecurringInvoice /\ tmpl.start = d /\ tmpl.next = d /\ tmpl.count = 0
  BY <1>1, <1>2 DEF RecurringInvoice
<1>5. NoneSkipped(tmpl) BY <1>2, <1>4, DayAssumption DEF NoneSkipped, Days
<1>6. \A j \in Jobs : ~Busy(j) BY DEF InitSchedules, Busy
<1>7. OnSchedule(tmpl) BY <1>2, <1>4, CountAssumption, DayAssumption DEF OnSchedule, InitSchedules, Days
<1>8. SmoothInv
  BY <1>6, <1>7 DEF SmoothInv, OneJob, ScheduleStands, RemindersStand, MailsApart, InitSchedules, Busy, At
<1> QED BY <1>3, <1>5, <1>6, <1>8 DEF ScheduleInv

(* A pass or a request starts. *)
LEMMA BeginKeeps ==
  ASSUME ScheduleInv, NEW j \in Jobs, NEW op \in {"pass", "generate", "edit", "send"}, NEW phase, NEW seen,
         Begin(j, op, phase, seen),
         UNCHANGED <<today, last, tmpl, made, quote, dunned, mails>>,
         \/ op = "pass" /\ phase = "expire" /\ seen = Never
         \/ op = "generate" /\ phase = "commit" /\ seen = tmpl
         \/ op = "edit" /\ phase = "open" /\ seen = tmpl
         \/ op = "send" /\ phase = "commit" /\ seen = quote
  PROVE  ScheduleInv'
<1>1. PICK r : r = [op |-> op, phase |-> phase, seen |-> seen, n |-> 0,
                    day |-> IF op \in {"pass", "generate"} THEN today ELSE Never]
  OBVIOUS
<1>2. /\ r.op = op /\ r.phase = phase /\ r.seen = seen /\ r.n = 0
      /\ r.day = IF op \in {"pass", "generate"} THEN today ELSE Never
  BY <1>1
<1>3. SchedulesTyped /\ NoneSkipped(tmpl) BY DEF ScheduleInv
<1>4. r \in Job
  <2>1. seen \in RecurringInvoice \cup QuoteStatuses \cup {Never} BY <1>3 DEF SchedulesTyped, NoneSkipped
  <2>2. 0 \in 0 .. SafetyCap BY CountAssumption
  <2> QED BY <1>1, <1>3, <2>1, <2>2 DEF Job, SchedulesTyped
<1>5. JobOK(r)
  <2>1. r.op \in {"pass", "generate"} => r.day \in 0 .. today
    BY <1>2, <1>3, DayAssumption DEF SchedulesTyped, Days
  <2> QED BY <1>2, <1>3, <1>4, <2>1 DEF JobOK, SchedulesTyped
<1>6. job' = [job EXCEPT ![j] = r] BY <1>1 DEF Begin
<1>7. SchedulesTyped'
  <2>1. mishaps' \in 0 .. MaxMishaps BY <1>3, MishapAssumption DEF Begin, SchedulesTyped
  <2> QED BY <1>3, <1>6, <2>1 DEF SchedulesTyped
<1>8. /\ JobOK(r)' /\ NoneSkipped(tmpl)'
  BY <1>3, <1>5 DEF JobOK, NoneSkipped
<1>9. smooth' => smooth /\ \A k \in Jobs : ~Busy(k)
  BY <1>3, MishapAssumption DEF smooth, Begin, Busy, SchedulesTyped
<1>10. JobWritten(j, r) BY <1>6, <1>8, <1>9 DEF JobWritten
<1>11. today' >= today /\ \A d \in Days : made'[d] >= made[d]
  BY <1>3, DayAssumption DEF SchedulesTyped, Days
<1>12. ASSUME smooth', smooth, SmoothInv
       PROVE  SmoothAfter(r)
  <2>1. \A k \in Jobs : ~At(k, "generate") /\ ~At(k, "sent") BY <1>9, <1>12 DEF At, Busy
  <2>2. OnSchedule(tmpl)' BY <1>12, <2>1 DEF SmoothInv, ScheduleStands, OnSchedule
  <2>3. MailsApart' /\ \A d \in Days : mails'[d] > 0 => dunned' # Never /\ d <= dunned'
    BY <1>12, <2>1 DEF SmoothInv, RemindersStand, MailsApart
  <2> QED BY <1>2, <2>2, <2>3 DEF SmoothAfter
<1> QED BY <1>3, <1>7, <1>8, <1>10, <1>11, <1>12, Written

(* A pass expires the quote and reads the template. *)
LEMMA ExpireKeeps == ASSUME ScheduleInv, NEW j \in Jobs, Expire(j) PROVE ScheduleInv'
<1>1. PICK q : q = job[j] OBVIOUS
<1>2. PICK t : t = tmpl OBVIOUS
<1>3. PICK r : r = [q EXCEPT !.phase = IF t.active THEN "generate" ELSE "remind",
                             !.seen = IF t.active THEN t ELSE Never]
  OBVIOUS
<1>4. SchedulesTyped /\ NoneSkipped(t) /\ t \in RecurringInvoice BY <1>2 DEF ScheduleInv, NoneSkipped
<1>5. JobOK(q) /\ q # NoJob /\ q.phase = "expire" /\ Busy(j)
  BY <1>1 DEF ScheduleInv, Expire, At, Busy
<1>6. q \in Job /\ q.op = "pass" /\ q.day \in 0 .. today BY <1>5 DEF JobOK
<1>7. /\ r.op = "pass" /\ r.day = q.day
      /\ r.phase = (IF t.active THEN "generate" ELSE "remind")
      /\ r.phase = "generate" => r.seen = t
      /\ r \in Job
  BY <1>3, <1>4, <1>6 DEF Job
<1>8. JobOK(r) BY <1>4, <1>6, <1>7 DEF JobOK
<1>9. job' = [job EXCEPT ![j] = r]
  BY <1>1, <1>2, <1>3, <1>4 DEF Expire, SchedulesTyped
<1>10. UNCHANGED <<today, last, tmpl, made, dunned, mails, mishaps>> BY DEF Expire
<1>11. SchedulesTyped'
  <2>1. quote' \in QuoteStatuses BY <1>4 DEF Expire, SchedulesTyped, QuoteStatuses
  <2> QED BY <1>4, <1>9, <1>10, <2>1 DEF SchedulesTyped
<1>12. JobOK(r)' /\ NoneSkipped(tmpl)' BY <1>2, <1>4, <1>8, <1>10 DEF JobOK, NoneSkipped
<1>13. JobWritten(j, r) BY <1>5, <1>9, <1>10, <1>12 DEF JobWritten, smooth
<1>14. today' >= today /\ \A d \in Days : made'[d] >= made[d]
  BY <1>4, <1>10, DayAssumption DEF SchedulesTyped, Days
<1>15. ASSUME smooth, SmoothInv
       PROVE  /\ OnSchedule(t)' /\ OnSchedule(tmpl)' /\ MailsApart'
              /\ \A d \in Days : mails'[d] > 0 => dunned' # Never /\ d <= dunned'
  <2>1. \A k \in Jobs : ~At(k, "generate") /\ ~At(k, "sent")
    BY <1>1, <1>5, <1>15 DEF SmoothInv, OneJob, At, Busy
  <2>2. OnSchedule(tmpl) BY <1>15, <2>1 DEF SmoothInv, ScheduleStands
  <2>3. OnSchedule(t)' /\ OnSchedule(tmpl)' BY <1>2, <1>10, <2>2 DEF OnSchedule
  <2>4. MailsApart /\ \A d \in Days : mails[d] > 0 => dunned # Never /\ d <= dunned
    BY <1>15, <2>1 DEF SmoothInv, RemindersStand
  <2> QED BY <1>10, <2>3, <2>4 DEF MailsApart
<1>16. smooth' /\ smooth /\ SmoothInv => SmoothAfter(r)
  BY <1>7, <1>15 DEF SmoothAfter
<1> QED BY <1>4, <1>10, <1>11, <1>12, <1>13, <1>14, <1>16, Written

(* The mails and what is known of them stay as they are, and so does the schedule. *)
LEMMA Stands ==
  ASSUME SmoothInv, NEW j \in Jobs, Busy(j)
  PROVE  /\ ~At(j, "generate") => OnSchedule(tmpl)
         /\ At(j, "generate") => OnSchedule(job[j].seen)
         /\ ~At(j, "sent") => \A d \in Days : mails[d] > 0 => dunned # Never /\ d <= dunned
         /\ At(j, "sent") => \A d \in Days : mails[d] > 0 => d <= job[j].day
         /\ MailsApart
BY DEF SmoothInv, OneJob, ScheduleStands, RemindersStand, At, Busy

(* A row followed by k more occurrences. *)
LEMMA Followed ==
  ASSUME NEW t \in RecurringInvoice, NEW k \in Nat, NEW v,
         v = [t EXCEPT !.count = t.count + k, !.next = t.next + k]
  PROVE  v \in RecurringInvoice /\ v.start = t.start /\ v.next = t.next + k /\ v.count = t.count + k
<1>1. PICK a \in BOOLEAN, s \in Nat, n \in Nat, c \in Nat :
        t = [active |-> a, start |-> s, next |-> n, count |-> c]
  BY DEF RecurringInvoice
<1>2. v = [active |-> a, start |-> s, next |-> n + k, count |-> c + k] BY <1>1
<1>3. n + k \in Nat /\ c + k \in Nat OBVIOUS
<1> QED BY <1>1, <1>2, <1>3 DEF RecurringInvoice

(* A row that is finished, or is not. *)
LEMMA Activated ==
  ASSUME NEW v \in RecurringInvoice, NEW u, u = [v EXCEPT !.active = ~Finished(v)]
  PROVE  u \in RecurringInvoice /\ u.start = v.start /\ u.next = v.next /\ u.count = v.count
<1>1. PICK a \in BOOLEAN, s \in Nat, n \in Nat, c \in Nat :
        v = [active |-> a, start |-> s, next |-> n, count |-> c]
  BY DEF RecurringInvoice
<1>2. (~Finished(v)) \in BOOLEAN
  <2>1. CASE Finished(v) BY <2>1
  <2>2. CASE ~Finished(v) BY <2>2
  <2> QED BY <2>1, <2>2
<1>3. PICK b : b \in BOOLEAN /\ u = [v EXCEPT !.active = b] BY <1>2, Zenon
<1>4. /\ u = [active |-> b, start |-> s, next |-> n, count |-> c]
      /\ u.start = s /\ u.next = n /\ u.count = c
  <2>1. u = [v EXCEPT !.active = b] BY <1>3
  <2> QED BY ONLY <1>1, <2>1
<1>5. u \in RecurringInvoice BY <1>3, <1>4 DEF RecurringInvoice
<1> QED BY <1>1, <1>4, <1>5

(* A pass makes one invoice. *)
LEMMA GenerateKeeps == ASSUME ScheduleInv, NEW j \in Jobs, Generate(j) PROVE ScheduleInv'
<1>1. PICK q : q = job[j] OBVIOUS
<1>2. PICK t : t = q.seen OBVIOUS
<1>3. PICK u : u = Advanced(t) OBVIOUS
<1>4. PICK r : r = [q EXCEPT !.seen = u, !.n = q.n + 1] OBVIOUS
<1>5. SchedulesTyped /\ NoneSkipped(tmpl) BY DEF ScheduleInv
<1>6. JobOK(q) /\ q # NoJob /\ q.phase = "generate" /\ Busy(j) /\ At(j, "generate")
  BY <1>1 DEF ScheduleInv, Generate, At, Busy
<1>7. q \in Job /\ q.op = "pass" /\ q.day \in 0 .. today /\ NoneSkipped(t)
  BY <1>2, <1>6 DEF JobOK
<1>8. IsDue(t, q.day, q.n) BY <1>1, <1>2 DEF Generate
<1>9. t \in RecurringInvoice BY <1>7 DEF NoneSkipped
<1>10. /\ u \in RecurringInvoice /\ u.start = t.start /\ u.next = t.next + 1 /\ u.count = t.count + 1
  <2>1. PICK v : v = [t EXCEPT !.count = t.count + 1, !.next = t.next + 1] OBVIOUS
  <2>2. u = [v EXCEPT !.active = ~Finished(v)] BY <1>3, <2>1 DEF Advanced
  <2>3. v \in RecurringInvoice /\ v.start = t.start /\ v.next = t.next + 1 /\ v.count = t.count + 1
    <3>1. 1 \in Nat OBVIOUS
    <3>2. \A k \in Nat : v = [t EXCEPT !.count = t.count + k, !.next = t.next + k] =>
            v \in RecurringInvoice /\ v.start = t.start /\ v.next = t.next + k /\ v.count = t.count + k
      BY <1>9, Followed
    <3> QED BY ONLY <2>1, <3>1, <3>2, Zenon
  <2>4. u \in RecurringInvoice /\ u.start = v.start /\ u.next = v.next /\ u.count = v.count
    BY ONLY <2>2, <2>3, Activated
  <2> QED BY <2>3, <2>4
<1>11. /\ t.next \in Days /\ t.count < MaxOccurrences /\ t.next <= EndDate /\ q.n \in Nat /\ q.n < SafetyCap
  <2>1. q.n \in 0 .. SafetyCap BY <1>7 DEF Job
  <2> QED BY <1>5, <1>7, <1>8, <1>9, <2>1, DayAssumption, CountAssumption
          DEF IsDue, Finished, SchedulesTyped, Days, RecurringInvoice
<1>12. r \in Job /\ r.op = "pass" /\ r.phase = "generate" /\ r.seen = u /\ r.day = q.day
  <2>1. q.n + 1 \in 0 .. SafetyCap BY <1>11, CountAssumption
  <2> QED BY <1>4, <1>6, <1>7, <1>10, <2>1 DEF Job
<1>13. UNCHANGED <<today, last, tmpl, quote, dunned, mails, mishaps>> BY DEF Generate
<1>14. made' = [made EXCEPT ![t.next] = made[t.next] + 1]
  BY <1>1, <1>2, <1>5, <1>11 DEF Generate, SchedulesTyped
<1>15. \A d \in Days : made'[d] = made[d] + IF d = t.next THEN 1 ELSE 0
  BY <1>5, <1>11, <1>14 DEF SchedulesTyped
<1>16. \A d \in Days : made[d] \in Nat BY <1>5 DEF SchedulesTyped
<1>17. job' = [job EXCEPT ![j] = r]
  BY <1>1, <1>2, <1>3, <1>4, <1>5 DEF Generate, SchedulesTyped
<1>18. SchedulesTyped'
  <2>1. made' \in [Days -> Nat] BY <1>5, <1>11, <1>14 DEF SchedulesTyped
  <2> QED BY <1>5, <1>13, <1>17, <2>1 DEF SchedulesTyped
<1>19. today' >= today /\ \A d \in Days : made'[d] >= made[d]
  BY <1>5, <1>13, <1>15, <1>16, DayAssumption DEF SchedulesTyped, Days
<1>20. NoneSkipped(tmpl)'
  <2>1. PICK w : w = tmpl OBVIOUS
  <2>2. NoneSkipped(w)' BY <1>5, <1>13, <1>18, <1>19, <2>1, NoneSkippedStays
  <2> QED BY <1>13, <2>1, <2>2 DEF NoneSkipped
<1>21. NoneSkipped(u)'
  <2>1. NoneSkipped(t)' BY <1>5, <1>7, <1>13, <1>18, <1>19, NoneSkippedStays
  <2>2. t.start \in Nat /\ t.next \in Nat BY <1>9 DEF RecurringInvoice
  <2>3. ASSUME NEW d \in Days, u.start <= d, d < u.next PROVE made'[d] >= 1
    <3>1. d \in Nat BY DayAssumption DEF Days
    <3>2. CASE d < t.next BY <1>10, <2>1, <2>3, <3>2 DEF NoneSkipped
    <3>3. CASE d = t.next BY <1>15, <1>16, <3>3
    <3> QED BY <1>10, <2>2, <2>3, <3>1, <3>2, <3>3
  <2> QED BY <1>10, <2>1, <2>3 DEF NoneSkipped
<1>22. JobOK(r)' BY <1>7, <1>12, <1>13, <1>21 DEF JobOK
<1>23. JobWritten(j, r) BY <1>6, <1>13, <1>17, <1>22 DEF JobWritten, smooth
<1>24. ASSUME smooth, SmoothInv
       PROVE  /\ OnSchedule(u)' /\ MailsApart'
              /\ \A d \in Days : mails'[d] > 0 => dunned' # Never /\ d <= dunned'
  <2>1. OnSchedule(t) BY <1>1, <1>2, <1>6, <1>24, Stands
  <2>2. t.start \in Nat /\ t.next \in Nat /\ t.count \in Nat BY <1>9 DEF RecurringInvoice
  <2>3. u.next = u.start + u.count /\ u.count <= MaxOccurrences /\ (u.count > 0 => u.next - 1 <= EndDate)
    BY <1>10, <1>11, <2>1, <2>2, CountAssumption, DayAssumption DEF OnSchedule
  <2>4. ASSUME NEW d \in Days PROVE made'[d] = IF u.start <= d /\ d < u.next THEN 1 ELSE 0
    <3>1. d \in Nat BY DayAssumption DEF Days
    <3>2. made[d] = IF t.start <= d /\ d < t.next THEN 1 ELSE 0 BY <2>1 DEF OnSchedule
    <3>3. t.next >= t.start BY <2>1, <2>2 DEF OnSchedule
    <3> QED BY <1>10, <1>15, <2>2, <3>1, <3>2, <3>3
  <2>5. OnSchedule(u)' BY <2>3, <2>4 DEF OnSchedule
  <2>6. ~At(j, "sent") BY <1>1, <1>6 DEF At
  <2>7. MailsApart /\ \A d \in Days : mails[d] > 0 => dunned # Never /\ d <= dunned
    BY <1>6, <1>24, <2>6, Stands
  <2> QED BY <1>13, <2>5, <2>7 DEF MailsApart
<1>25. r # NoJob BY <1>12, JobAssumption
<1>26. smooth' /\ smooth /\ SmoothInv => SmoothAfter(r)
  BY <1>12, <1>24, <1>25 DEF SmoothAfter
<1> QED BY <1>5, <1>13, <1>18, <1>19, <1>20, <1>23, <1>26, Written

(* A pass saves the template it has followed. *)
LEMMA SaveTemplateKeeps == ASSUME ScheduleInv, NEW j \in Jobs, SaveTemplate(j) PROVE ScheduleInv'
<1>1. PICK q : q = job[j] OBVIOUS
<1>2. PICK t : t = q.seen OBVIOUS
<1>3. PICK r : r = [q EXCEPT !.phase = "remind", !.seen = Never, !.n = 0] OBVIOUS
<1>4. SchedulesTyped /\ NoneSkipped(tmpl) BY DEF ScheduleInv
<1>5. JobOK(q) /\ q # NoJob /\ q.phase = "generate" /\ Busy(j) /\ At(j, "generate") /\ ~At(j, "sent")
  BY <1>1 DEF ScheduleInv, SaveTemplate, At, Busy
<1>6. q \in Job /\ q.op = "pass" /\ q.day \in 0 .. today /\ NoneSkipped(t) BY <1>2, <1>5 DEF JobOK
<1>7. r \in Job /\ r.op = "pass" /\ r.phase = "remind" /\ r.day = q.day
  <2>1. 0 \in 0 .. SafetyCap BY CountAssumption
  <2>2. Never \in RecurringInvoice \cup QuoteStatuses \cup {Never} OBVIOUS
  <2>3. r \in Job /\ r.op = q.op /\ r.phase = "remind" /\ r.day = q.day
    BY <1>3, <1>6, <2>1, <2>2 DEF Job
  <2> QED BY <1>6, <2>3
<1>8. JobOK(r) BY <1>6, <1>7 DEF JobOK
<1>9. job' = [job EXCEPT ![j] = r] BY <1>1, <1>3, <1>4 DEF SaveTemplate, Goto, SchedulesTyped
<1>10. tmpl' = t /\ UNCHANGED <<today, last, made, quote, dunned, mails, mishaps>>
  BY <1>1, <1>2 DEF SaveTemplate, Goto
<1>11. SchedulesTyped' BY <1>4, <1>9, <1>10 DEF SchedulesTyped
<1>12. tmpl'.start = tmpl.start BY <1>6, <1>10 DEF NoneSkipped
<1>13. NoneSkipped(tmpl)' BY <1>6, <1>10 DEF NoneSkipped
<1>14. JobOK(r)' BY <1>7, <1>8, <1>10 DEF JobOK
<1>15. JobWritten(j, r) BY <1>5, <1>9, <1>10, <1>14 DEF JobWritten, smooth
<1>16. today' >= today /\ \A d \in Days : made'[d] >= made[d]
  BY <1>4, <1>10, DayAssumption DEF SchedulesTyped, Days
<1>17. ASSUME smooth, SmoothInv
       PROVE  /\ OnSchedule(tmpl)' /\ MailsApart'
              /\ \A d \in Days : mails'[d] > 0 => dunned' # Never /\ d <= dunned'
  <2>1. OnSchedule(t) BY <1>1, <1>2, <1>5, <1>17, Stands
  <2>2. MailsApart /\ \A d \in Days : mails[d] > 0 => dunned # Never /\ d <= dunned
    BY <1>5, <1>17, Stands
  <2> QED BY <1>10, <2>1, <2>2 DEF MailsApart, OnSchedule
<1>18. smooth' /\ smooth /\ SmoothInv => SmoothAfter(r)
  BY <1>7, <1>17 DEF SmoothAfter
<1> QED BY <1>11, <1>12, <1>13, <1>15, <1>16, <1>18, Written

(* A pass sends the reminder, or finds it is not time. *)
LEMMA RemindKeeps == ASSUME ScheduleInv, NEW j \in Jobs, Remind(j) PROVE ScheduleInv'
<1>1. PICK q : q = job[j] OBVIOUS
<1>2. PICK due \in BOOLEAN : due <=> ReminderIsDue(dunned, q.day)
  <2>1. CASE ReminderIsDue(dunned, q.day) BY <2>1
  <2>2. CASE ~ReminderIsDue(dunned, q.day) BY <2>2
  <2> QED BY <2>1, <2>2
<1>3. PICK r : r = [q EXCEPT !.phase = IF due THEN "sent" ELSE "finish", !.seen = Never, !.n = 0]
  OBVIOUS
<1>4. SchedulesTyped /\ NoneSkipped(tmpl) BY DEF ScheduleInv
<1>5. JobOK(q) /\ q # NoJob /\ q.phase = "remind" /\ Busy(j) /\ ~At(j, "generate") /\ ~At(j, "sent")
  BY <1>1 DEF ScheduleInv, Remind, At, Busy
<1>6. q \in Job /\ q.op = "pass" /\ q.day \in 0 .. today BY <1>5 DEF JobOK
<1>7. q.day \in Days /\ today \in Nat BY <1>4, <1>6, DayAssumption DEF SchedulesTyped, Days
<1>8. /\ r \in Job /\ r.op = "pass" /\ r.phase = (IF due THEN "sent" ELSE "finish") /\ r.day = q.day
  <2>1. 0 \in 0 .. SafetyCap BY CountAssumption
  <2>2. Never \in RecurringInvoice \cup QuoteStatuses \cup {Never} OBVIOUS
  <2>3. (IF due THEN "sent" ELSE "finish") \in {"remind", "sent", "finish", "commit"} OBVIOUS
  <2>4. PICK p : p = IF due THEN "sent" ELSE "finish" OBVIOUS
  <2>5. p \in {"remind", "sent", "finish", "commit"} BY <2>3, <2>4
  <2>6. r = [q EXCEPT !.phase = p, !.seen = Never, !.n = 0] BY <1>3, <2>4
  <2>7. r \in Job /\ r.op = q.op /\ r.phase = p /\ r.day = q.day
    BY <1>6, <2>1, <2>2, <2>5, <2>6 DEF Job
  <2> QED BY <1>6, <2>4, <2>7
<1>9. JobOK(r) BY <1>6, <1>8 DEF JobOK
<1>10. job' = [job EXCEPT ![j] = r]
  BY <1>1, <1>2, <1>3, <1>4 DEF Remind, Goto, SchedulesTyped
<1>11. UNCHANGED <<today, last, tmpl, made, quote, dunned, mishaps>> BY DEF Remind, Goto
<1>12. mails' = IF due THEN [mails EXCEPT ![q.day] = mails[q.day] + 1] ELSE mails
  BY <1>1, <1>2, <1>4, <1>7 DEF Remind, SchedulesTyped
<1>13. /\ mails' \in [Days -> Nat] /\ \A d \in Days : mails[d] \in Nat
       /\ \A d \in Days : mails'[d] = mails[d] + IF due /\ d = q.day THEN 1 ELSE 0
  BY <1>4, <1>7, <1>12 DEF SchedulesTyped
<1>14. SchedulesTyped' BY <1>4, <1>10, <1>11, <1>13 DEF SchedulesTyped
<1>15. JobOK(r)' /\ NoneSkipped(tmpl)' BY <1>4, <1>8, <1>9, <1>11 DEF JobOK, NoneSkipped
<1>16. JobWritten(j, r) BY <1>5, <1>10, <1>11, <1>15 DEF JobWritten, smooth
<1>17. today' >= today /\ \A d \in Days : made'[d] >= made[d]
  BY <1>4, <1>7, <1>11 DEF SchedulesTyped
<1>18. ASSUME smooth, SmoothInv
       PROVE  /\ OnSchedule(tmpl)' /\ MailsApart'
              /\ IF due THEN \A d \in Days : mails'[d] > 0 => d <= q.day
                        ELSE \A d \in Days : mails'[d] > 0 => dunned' # Never /\ d <= dunned'
  <2>1. OnSchedule(tmpl) BY <1>5, <1>18, Stands
  <2>2. MailsApart /\ \A d \in Days : mails[d] > 0 => dunned # Never /\ d <= dunned
    BY <1>5, <1>18, Stands
  <2>3. \A d \in Days : d \in Nat BY DayAssumption DEF Days
  <2>4. CASE due
    <3>1. \A d \in Days : mails[d] > 0 => q.day - d >= Interval
      <4> SUFFICES ASSUME NEW d \in Days, mails[d] > 0 PROVE q.day - d >= Interval OBVIOUS
      <4>1. dunned \in Days /\ d <= dunned BY <1>4, <2>2 DEF SchedulesTyped
      <4>2. q.day - dunned >= Interval BY <1>2, <2>2, <2>4 DEF ReminderIsDue
      <4> QED BY <1>7, <2>3, <4>1, <4>2, CountAssumption
    <3>2. mails[q.day] = 0 BY <1>7, <1>13, <2>3, <3>1, CountAssumption
    <3>3. \A d \in Days : mails'[d] > 0 => d <= q.day
      BY <1>7, <1>13, <2>3, <2>4, <3>1, CountAssumption
    <3>4. \A d \in Days : mails'[d] <= 1 BY <1>7, <1>13, <2>2, <3>2 DEF MailsApart
    <3>5. ASSUME NEW d \in Days, NEW e \in Days, mails'[d] > 0, mails'[e] > 0, d < e
          PROVE  e - d >= Interval
      <4>1. d # q.day BY <1>7, <2>3, <3>3, <3>5
      <4>2. mails[d] > 0 BY <1>13, <3>5, <4>1
      <4>3. CASE e = q.day BY <3>1, <4>2, <4>3
      <4>4. CASE e # q.day BY <1>13, <2>2, <3>5, <4>2, <4>4 DEF MailsApart
      <4> QED BY <4>3, <4>4
    <3> QED BY <1>11, <2>1, <2>4, <3>3, <3>4, <3>5 DEF MailsApart, OnSchedule
  <2>5. CASE ~due
    BY <1>11, <1>12, <2>1, <2>2, <2>5 DEF MailsApart, OnSchedule
  <2> QED BY <2>4, <2>5
<1>19. r # NoJob BY <1>8, JobAssumption
<1>20. smooth' /\ smooth /\ SmoothInv => SmoothAfter(r)
  BY <1>8, <1>18, <1>19 DEF SmoothAfter
<1> QED BY <1>11, <1>14, <1>15, <1>16, <1>17, <1>20, Written

(* A pass saves the date of its reminder. *)
LEMMA SaveReminderKeeps == ASSUME ScheduleInv, NEW j \in Jobs, SaveReminder(j) PROVE ScheduleInv'
<1>1. PICK q : q = job[j] OBVIOUS
<1>2. PICK r : r = [q EXCEPT !.phase = "finish", !.seen = Never, !.n = 0] OBVIOUS
<1>3. SchedulesTyped /\ NoneSkipped(tmpl) BY DEF ScheduleInv
<1>4. JobOK(q) /\ q # NoJob /\ q.phase = "sent" /\ Busy(j) /\ ~At(j, "generate") /\ At(j, "sent")
  BY <1>1 DEF ScheduleInv, SaveReminder, At, Busy
<1>5. q \in Job /\ q.op = "pass" /\ q.day \in 0 .. today BY <1>4 DEF JobOK
<1>6. r \in Job /\ r.op = "pass" /\ r.phase = "finish" /\ r.day = q.day
  <2>1. 0 \in 0 .. SafetyCap BY CountAssumption
  <2> QED BY <1>2, <1>5, <2>1 DEF Job
<1>7. q.day \in Days /\ today \in Nat BY <1>3, <1>5, DayAssumption DEF SchedulesTyped, Days
<1>8. JobOK(r) BY <1>5, <1>6 DEF JobOK
<1>9. job' = [job EXCEPT ![j] = r] BY <1>1, <1>2, <1>3 DEF SaveReminder, Goto, SchedulesTyped
<1>10. dunned' = q.day /\ UNCHANGED <<today, last, tmpl, made, quote, mails, mishaps>>
  BY <1>1 DEF SaveReminder, Goto
<1>11. SchedulesTyped' BY <1>3, <1>7, <1>9, <1>10 DEF SchedulesTyped
<1>12. JobOK(r)' /\ NoneSkipped(tmpl)' BY <1>3, <1>8, <1>10 DEF JobOK, NoneSkipped
<1>13. JobWritten(j, r) BY <1>4, <1>9, <1>10, <1>12 DEF JobWritten, smooth
<1>14. today' >= today /\ \A d \in Days : made'[d] >= made[d]
  BY <1>3, <1>7, <1>10 DEF SchedulesTyped
<1>15. ASSUME smooth, SmoothInv
       PROVE  /\ OnSchedule(tmpl)' /\ MailsApart'
              /\ \A d \in Days : mails'[d] > 0 => dunned' # Never /\ d <= dunned'
  <2>1. OnSchedule(tmpl) BY <1>4, <1>15, Stands
  <2>2. MailsApart /\ \A d \in Days : mails[d] > 0 => d <= q.day BY <1>1, <1>4, <1>15, Stands
  <2>3. q.day # Never BY <1>7, NeverAssumption DEF Days
  <2> QED BY <1>10, <2>1, <2>2, <2>3 DEF MailsApart, OnSchedule
<1>16. smooth' /\ smooth /\ SmoothInv => SmoothAfter(r)
  BY <1>6, <1>15 DEF SmoothAfter
<1> QED BY <1>10, <1>11, <1>12, <1>13, <1>14, <1>16, Written

(* A job that ends: what it has to leave behind. *)
LEMMA EndsWell ==
  ASSUME ScheduleInv, NEW j \in Jobs, Busy(j), ~At(j, "sent") \/ ~smooth',
         job' = [job EXCEPT ![j] = NoJob], smooth' => smooth,
         SchedulesTyped', NoneSkipped(tmpl)', tmpl'.start = tmpl.start, UNCHANGED <<today, dunned, mails>>,
         \A d \in Days : made'[d] >= made[d],
         smooth' /\ smooth /\ SmoothInv => OnSchedule(tmpl)'
  PROVE  ScheduleInv'
<1>1. PICK r : r = NoJob OBVIOUS
<1>2. JobWritten(j, r) BY <1>1 DEF JobWritten
<1>3. today' >= today BY DayAssumption DEF ScheduleInv, SchedulesTyped, Days
<1>4. smooth' /\ smooth /\ SmoothInv =>
        MailsApart' /\ \A d \in Days : mails'[d] > 0 => dunned' # Never /\ d <= dunned'
  <2> SUFFICES ASSUME smooth', SmoothInv
               PROVE  MailsApart' /\ \A d \in Days : mails'[d] > 0 => dunned' # Never /\ d <= dunned'
    OBVIOUS
  <2>1. MailsApart /\ \A d \in Days : mails[d] > 0 => dunned # Never /\ d <= dunned BY Stands
  <2> QED BY <2>1 DEF MailsApart
<1>5. smooth' /\ smooth /\ SmoothInv => SmoothAfter(r)
  BY <1>1, <1>4 DEF SmoothAfter
<1> QED BY <1>2, <1>3, <1>5, Written

(* A pass is through, a quote is saved, or a job fails. *)
LEMMA LeaveKeeps ==
  ASSUME ScheduleInv, NEW j \in Jobs, Finish(j) \/ CommitSend(j) \/ JobFails(j)
  PROVE  ScheduleInv'
<1>1. PICK q : q = job[j] OBVIOUS
<1>2. SchedulesTyped /\ NoneSkipped(tmpl) BY DEF ScheduleInv
<1>3. JobOK(q) /\ q # NoJob /\ Busy(j)
  BY <1>1 DEF ScheduleInv, Finish, CommitSend, JobFails, At, Busy
<1>4. UNCHANGED <<today, tmpl, made, dunned, mails>> /\ job' = [job EXCEPT ![j] = NoJob]
  BY DEF Finish, CommitSend, JobFails, End
<1>5. mishaps' \in 0 .. MaxMishaps /\ (smooth' => smooth)
  BY <1>2, MishapAssumption DEF Finish, CommitSend, JobFails, End, SchedulesTyped, smooth
<1>6. last' \in Days \cup {Never}
  <2>1. CASE Finish(j)
    <3>1. q.day \in 0 .. today BY <1>1, <1>3, <2>1 DEF JobOK, Finish, At
    <3> QED BY <1>1, <1>2, <2>1, <3>1, DayAssumption DEF Finish, SchedulesTyped, Days
  <2>2. CASE CommitSend(j) \/ JobFails(j) BY <1>2, <2>2 DEF CommitSend, JobFails, SchedulesTyped
  <2> QED BY <2>1, <2>2
<1>7. quote' \in QuoteStatuses
  <2>1. CASE CommitSend(j)
    <3>1. q.seen \in QuoteStatuses BY <1>1, <1>3, <2>1 DEF JobOK, CommitSend, At
    <3> QED BY <1>1, <2>1, <3>1 DEF CommitSend, QuoteStatuses, Expirable
  <2>2. CASE Finish(j) \/ JobFails(j) BY <1>2, <2>2 DEF Finish, JobFails, SchedulesTyped
  <2> QED BY <2>1, <2>2
<1>8. SchedulesTyped' BY <1>2, <1>4, <1>5, <1>6, <1>7 DEF SchedulesTyped
<1>9. NoneSkipped(tmpl)' BY <1>2, <1>4 DEF NoneSkipped
<1>10. \A d \in Days : made'[d] >= made[d] BY <1>2, <1>4 DEF SchedulesTyped
<1>11. smooth' => ~At(j, "sent") /\ ~At(j, "generate")
  <2>1. CASE Finish(j) \/ CommitSend(j) BY <2>1 DEF Finish, CommitSend, At
  <2>2. CASE JobFails(j)
    <3>1. smooth' => q.op # "pass"
      BY <1>1, <1>2, <2>2, MishapAssumption DEF JobFails, smooth, SchedulesTyped
    <3> QED BY <1>1, <1>3, <3>1 DEF JobOK, At
  <2> QED BY <2>1, <2>2
<1>12. smooth' /\ smooth /\ SmoothInv => OnSchedule(tmpl)'
  <2> SUFFICES ASSUME smooth', SmoothInv PROVE OnSchedule(tmpl)' OBVIOUS
  <2>1. OnSchedule(tmpl) BY <1>3, <1>11, Stands
  <2> QED BY <1>4, <2>1 DEF OnSchedule
<1> QED BY <1>3, <1>4, <1>5, <1>8, <1>9, <1>10, <1>11, <1>12, EndsWell

(* A request saves the row with the dates and the number it was opened with. *)
LEMMA CommitEditKeeps == ASSUME ScheduleInv, NEW j \in Jobs, CommitEdit(j) PROVE ScheduleInv'
<1>1. PICK q : q = job[j] OBVIOUS
<1>2. PICK t : t = q.seen OBVIOUS
<1>3. SchedulesTyped /\ NoneSkipped(tmpl) BY DEF ScheduleInv
<1>4. JobOK(q) /\ q # NoJob /\ q.phase = "commit" /\ q.op = "edit"
      /\ Busy(j) /\ ~At(j, "generate") /\ ~At(j, "sent")
  BY <1>1 DEF ScheduleInv, CommitEdit, At, Busy
<1>5. NoneSkipped(t) BY <1>2, <1>4 DEF JobOK
<1>6. tmpl' = t /\ UNCHANGED <<today, last, made, quote, dunned, mails, mishaps>>
      /\ job' = [job EXCEPT ![j] = NoJob]
  BY <1>1, <1>2 DEF CommitEdit, End
<1>7. SchedulesTyped' BY <1>3, <1>6 DEF SchedulesTyped
<1>8. NoneSkipped(tmpl)' /\ tmpl'.start = tmpl.start BY <1>5, <1>6 DEF NoneSkipped
<1>9. \A d \in Days : made'[d] >= made[d] BY <1>3, <1>6 DEF SchedulesTyped
<1>10. smooth' => smooth BY <1>6 DEF smooth
<1>11. smooth' /\ smooth /\ SmoothInv => OnSchedule(tmpl)'
  <2> SUFFICES ASSUME SmoothInv PROVE OnSchedule(tmpl)' OBVIOUS
  <2>1. OnSchedule(tmpl) BY <1>4, Stands
  <2>2. t.next = tmpl.next /\ t.count = tmpl.count
    BY <1>1, <1>2, <1>4 DEF SmoothInv, ScheduleStands
  <2>3. t.start = tmpl.start BY <1>5 DEF NoneSkipped
  <2> QED BY <1>6, <2>1, <2>2, <2>3 DEF OnSchedule
<1> QED BY <1>4, <1>6, <1>7, <1>8, <1>9, <1>10, <1>11, EndsWell

(* The turns of one transaction: the invoices are made and the row moves past them. *)
LEMMA CommitGenerateKeeps == ASSUME ScheduleInv, NEW j \in Jobs, CommitGenerate(j) PROVE ScheduleInv'
<1>1. PICK q : q = job[j] OBVIOUS
<1>2. PICK t : t = q.seen OBVIOUS
<1>3. PICK k : k = Turns(t, q.day) OBVIOUS
<1>4. PICK v : v = [t EXCEPT !.count = t.count + k, !.next = t.next + k] OBVIOUS
<1>5. PICK u : u = [v EXCEPT !.active = ~Finished(v)] OBVIOUS
<1>6. PICK w : w = IF k = 0 THEN t ELSE u OBVIOUS
<1>7. SchedulesTyped /\ NoneSkipped(tmpl) BY DEF ScheduleInv
<1>8. JobOK(q) /\ q # NoJob /\ q.phase = "commit" /\ q.op = "generate"
      /\ Busy(j) /\ ~At(j, "generate") /\ ~At(j, "sent")
  BY <1>1 DEF ScheduleInv, CommitGenerate, At, Busy
<1>9. NoneSkipped(t) /\ t \in RecurringInvoice /\ q.day \in 0 .. today BY <1>2, <1>8 DEF JobOK, NoneSkipped
<1>10. q.day \in Nat BY <1>7, <1>9, DayAssumption DEF SchedulesTyped, Days
<1>11. /\ k \in Nat
       /\ k > 0 => t.count + k <= MaxOccurrences /\ t.next + k - 1 <= EndDate
  BY <1>3, <1>9, <1>10, TurnsWithin, CountAssumption
<1>12. v \in RecurringInvoice /\ v.start = t.start /\ v.next = t.next + k /\ v.count = t.count + k
  BY ONLY <1>4, <1>9, <1>11, Followed
<1>13. u \in RecurringInvoice /\ u.start = v.start /\ u.next = v.next /\ u.count = v.count
  BY ONLY <1>5, <1>12, Activated
<1>14. t.start \in Nat /\ t.next \in Nat /\ t.count \in Nat BY <1>9 DEF RecurringInvoice
<1>15. w \in RecurringInvoice /\ w.start = t.start /\ w.next = t.next + k /\ w.count = t.count + k
  BY <1>6, <1>9, <1>12, <1>13, <1>14
<1>16. /\ made' = [d \in Days |-> made[d] + IF d \in t.next .. t.next + k - 1 THEN 1 ELSE 0]
       /\ tmpl' = w /\ job' = [job EXCEPT ![j] = NoJob]
       /\ UNCHANGED <<today, last, quote, dunned, mails, mishaps>>
  BY <1>1, <1>2, <1>3, <1>4, <1>5, <1>6 DEF CommitGenerate, End
<1>17. \A d \in Days : d \in Nat /\ made[d] \in Nat BY <1>7, DayAssumption DEF SchedulesTyped, Days
<1>18. \A d \in Days : made'[d] = made[d] + IF t.next <= d /\ d < t.next + k THEN 1 ELSE 0
  BY <1>11, <1>14, <1>16, <1>17
<1>19. SchedulesTyped'
  <2>1. made' \in [Days -> Nat] BY <1>16, <1>17
  <2> QED BY <1>7, <1>16, <2>1 DEF SchedulesTyped
<1>20. \A d \in Days : made'[d] >= made[d] BY <1>17, <1>18
<1>21. tmpl'.start = tmpl.start BY <1>9, <1>15, <1>16 DEF NoneSkipped
<1>22. NoneSkipped(tmpl)'
  <2>1. ASSUME NEW d \in Days, t.start <= d, d < t.next + k PROVE made'[d] >= 1
    <3>1. CASE d < t.next BY <1>9, <1>17, <1>18, <2>1, <3>1 DEF NoneSkipped
    <3>2. CASE t.next <= d BY <1>17, <1>18, <2>1, <3>2
    <3> QED BY <1>14, <1>17, <3>1, <3>2
  <2> QED BY <1>15, <1>16, <1>21, <2>1 DEF NoneSkipped
<1>23. smooth' => smooth BY <1>16 DEF smooth
<1>24. smooth' /\ smooth /\ SmoothInv => OnSchedule(tmpl)'
  <2> SUFFICES ASSUME SmoothInv PROVE OnSchedule(tmpl)' OBVIOUS
  <2>1. OnSchedule(tmpl) BY <1>8, Stands
  <2>2. t.next = tmpl.next /\ t.count = tmpl.count
    BY <1>1, <1>2, <1>8 DEF SmoothInv, ScheduleStands
  <2>3. t.start = tmpl.start BY <1>9 DEF NoneSkipped
  <2>4. OnSchedule(t) BY <2>1, <2>2, <2>3 DEF OnSchedule
  <2>5. w.next = w.start + w.count /\ w.count <= MaxOccurrences /\ (w.count > 0 => w.next - 1 <= EndDate)
    BY <1>11, <1>14, <1>15, <2>4, DayAssumption, CountAssumption DEF OnSchedule
  <2>6. ASSUME NEW d \in Days PROVE made'[d] = IF w.start <= d /\ d < w.next THEN 1 ELSE 0
    <3>1. made[d] = IF t.start <= d /\ d < t.next THEN 1 ELSE 0 BY <2>4 DEF OnSchedule
    <3>2. t.start <= t.next BY <1>14, <2>4 DEF OnSchedule
    <3> QED BY <1>11, <1>14, <1>15, <1>17, <1>18, <3>1, <3>2
  <2> QED BY <1>16, <2>5, <2>6 DEF OnSchedule
<1> QED BY <1>8, <1>16, <1>19, <1>20, <1>21, <1>22, <1>23, <1>24, EndsWell

(* A form is posted: it is about the row as it is now, but for the date. *)
LEMMA PostEditKeeps == ASSUME ScheduleInv, NEW j \in Jobs, PostEdit(j) PROVE ScheduleInv'
<1>1. PICK q : q = job[j] OBVIOUS
<1>2. PICK t : t = tmpl OBVIOUS
<1>3. PICK s : s = [t EXCEPT !.next = q.seen.next] OBVIOUS
<1>4. PICK r : r = [q EXCEPT !.phase = "commit", !.seen = s] OBVIOUS
<1>5. SchedulesTyped /\ NoneSkipped(t) /\ t \in RecurringInvoice BY <1>2 DEF ScheduleInv, NoneSkipped
<1>6. JobOK(q) /\ q # NoJob /\ q.phase = "open" /\ Busy(j) /\ ~At(j, "generate") /\ ~At(j, "sent")
  BY <1>1 DEF ScheduleInv, PostEdit, At, Busy
<1>7. q \in Job /\ q.op = "edit" /\ NoneSkipped(q.seen) BY <1>6 DEF JobOK
<1>8. /\ s \in RecurringInvoice /\ s.start = t.start /\ s.next = q.seen.next /\ s.count = t.count
  <2>1. PICK n \in Nat : n = q.seen.next BY <1>7 DEF NoneSkipped, RecurringInvoice
  <2>2. s = [t EXCEPT !.next = n] BY <1>3, <2>1
  <2> QED BY <1>5, <2>1, <2>2 DEF RecurringInvoice
<1>9. NoneSkipped(s) BY <1>2, <1>7, <1>8 DEF NoneSkipped
<1>10. r \in Job /\ r.op = "edit" /\ r.phase = "commit" /\ r.seen = s BY <1>4, <1>7, <1>8 DEF Job
<1>11. JobOK(r) BY <1>9, <1>10 DEF JobOK
<1>12. job' = [job EXCEPT ![j] = r] BY <1>1, <1>2, <1>3, <1>4, <1>5 DEF PostEdit, SchedulesTyped
<1>13. UNCHANGED <<today, last, tmpl, made, quote, dunned, mails, mishaps>> BY DEF PostEdit
<1>14. SchedulesTyped' BY <1>5, <1>12, <1>13 DEF SchedulesTyped
<1>15. JobOK(r)' /\ NoneSkipped(tmpl)' BY <1>2, <1>5, <1>11, <1>13 DEF JobOK, NoneSkipped
<1>16. JobWritten(j, r) BY <1>6, <1>12, <1>13, <1>15 DEF JobWritten, smooth
<1>17. today' >= today /\ \A d \in Days : made'[d] >= made[d]
  BY <1>5, <1>13, DayAssumption DEF SchedulesTyped, Days
<1>18. ASSUME smooth, SmoothInv
       PROVE  /\ OnSchedule(tmpl)' /\ s.next = tmpl'.next /\ s.count = tmpl'.count /\ MailsApart'
              /\ \A d \in Days : mails'[d] > 0 => dunned' # Never /\ d <= dunned'
  <2>1. OnSchedule(tmpl) /\ MailsApart /\ \A d \in Days : mails[d] > 0 => dunned # Never /\ d <= dunned
    BY <1>6, <1>18, Stands
  <2>2. q.seen.next = tmpl.next BY <1>1, <1>6, <1>7, <1>18 DEF SmoothInv, ScheduleStands
  <2> QED BY <1>2, <1>8, <1>13, <2>1, <2>2 DEF MailsApart, OnSchedule
<1>19. smooth' /\ smooth /\ SmoothInv => SmoothAfter(r)
  BY <1>10, <1>18 DEF SmoothAfter
<1> QED BY <1>13, <1>14, <1>15, <1>16, <1>17, <1>19, Written

(* Time passes, the template is paused, the quote is answered: no job moves. *)
LEMMA OthersKeep ==
  ASSUME ScheduleInv,
         NextDay \/ Toggle \/ (\E status \in Outcomes : SetQuote(status)) \/ UNCHANGED scheduleVars
  PROVE  ScheduleInv'
<1>1. UNCHANGED <<last, made, dunned, mails, job, mishaps>>
  BY DEF NextDay, Toggle, SetQuote, scheduleVars
<1>2. SchedulesTyped /\ NoneSkipped(tmpl) BY DEF ScheduleInv
<1>3. PICK t : t = tmpl OBVIOUS
<1>4. PICK u : u = tmpl' OBVIOUS
<1>5. t \in RecurringInvoice BY <1>2, <1>3 DEF NoneSkipped
<1>6. u \in RecurringInvoice /\ u.start = t.start /\ u.next = t.next /\ u.count = t.count
  <2>1. CASE Toggle
    <3>1. PICK a \in BOOLEAN, s \in Nat, n \in Nat, c \in Nat :
            t = [active |-> a, start |-> s, next |-> n, count |-> c]
      BY <1>5 DEF RecurringInvoice
    <3>2. u = [t EXCEPT !.active = ~t.active] BY <1>3, <1>4, <2>1 DEF Toggle
    <3> QED BY <3>1, <3>2 DEF RecurringInvoice
  <2>2. CASE u = t BY <1>5, <2>2
  <2> QED BY <1>3, <1>4, <2>1, <2>2 DEF NextDay, SetQuote, scheduleVars
<1>7. today' \in Days /\ today' >= today
  BY <1>2, DayAssumption DEF NextDay, Toggle, SetQuote, scheduleVars, SchedulesTyped, Days
<1>8. quote' \in QuoteStatuses
  BY <1>2 DEF NextDay, Toggle, SetQuote, scheduleVars, SchedulesTyped, QuoteStatuses
<1>9. SchedulesTyped' BY <1>1, <1>2, <1>7, <1>8 DEF SchedulesTyped
<1>10. \A d \in Days : made'[d] >= made[d] BY <1>1, <1>2 DEF SchedulesTyped
<1>11. tmpl'.start = tmpl.start BY <1>3, <1>4, <1>6
<1>12. NoneSkipped(tmpl)' BY <1>1, <1>2, <1>3, <1>4, <1>6 DEF NoneSkipped
<1>13. ASSUME NEW k \in Jobs, Busy(k)' PROVE JobOK(job[k])'
  <2>1. PICK s : s = job[k] OBVIOUS
  <2>2. JobOK(s) BY <1>1, <1>13, <2>1 DEF ScheduleInv, Busy
  <2>3. JobOK(s)' BY <1>2, <1>7, <1>9, <1>10, <1>11, <2>2, JobStays
  <2> QED BY <1>1, <2>1, <2>3 DEF JobOK, NoneSkipped
<1>14. ASSUME smooth' PROVE SmoothInv'
  <2>1. SmoothInv BY <1>1, <1>14 DEF ScheduleInv, smooth
  <2>2. OneJob' /\ RemindersStand'
    BY <1>1, <2>1 DEF SmoothInv, OneJob, RemindersStand, MailsApart, At, Busy
  <2>3. tmpl'.next = tmpl.next /\ tmpl'.count = tmpl.count BY <1>3, <1>4, <1>6
  <2>4. ScheduleStands'
    BY <1>1, <1>11, <2>1, <2>3 DEF SmoothInv, ScheduleStands, OnSchedule, At, Busy
  <2> QED BY <2>2, <2>4 DEF SmoothInv
<1> QED BY <1>9, <1>12, <1>13, <1>14 DEF ScheduleInv

LEMMA SchedulesKeep == ScheduleInv /\ [NextSchedules]_scheduleVars => ScheduleInv'
<1> SUFFICES ASSUME ScheduleInv, [NextSchedules]_scheduleVars PROVE ScheduleInv' OBVIOUS
<1>1. CASE NextDay \/ Toggle \/ (\E status \in Outcomes : SetQuote(status)) \/ UNCHANGED scheduleVars
  BY <1>1, OthersKeep
<1>2. ASSUME NEW j \in Jobs,
             BeginPass(j, TRUE) \/ BeginPass(j, FALSE) \/ LoadGenerate(j) \/ LoadEdit(j) \/ LoadSend(j)
      PROVE  ScheduleInv'
  <2>1. CASE BeginPass(j, TRUE) \/ BeginPass(j, FALSE) BY <2>1, BeginKeeps DEF BeginPass
  <2>2. CASE LoadGenerate(j) BY <2>2, BeginKeeps DEF LoadGenerate
  <2>3. CASE LoadEdit(j) BY <2>3, BeginKeeps DEF LoadEdit
  <2>4. CASE LoadSend(j) BY <2>4, BeginKeeps DEF LoadSend
  <2> QED BY <1>2, <2>1, <2>2, <2>3, <2>4
<1>3. ASSUME NEW j \in Jobs, JobStep(j) \/ JobFails(j) PROVE ScheduleInv'
  BY <1>3, ExpireKeeps, GenerateKeeps, SaveTemplateKeeps, RemindKeeps, SaveReminderKeeps, LeaveKeeps,
     CommitGenerateKeeps, PostEditKeeps, CommitEditKeeps
     DEF JobStep
<1> QED BY <1>1, <1>2, <1>3 DEF NextSchedules, Cron

(* The invariant holds in every state, whatever fails or overlaps. *)
THEOREM ScheduleInvariant == ScheduleSpec => []ScheduleInv
BY SchedulesBegin, SchedulesKeep, PTL DEF ScheduleSpec

(* Days, the template, the counts of invoices and mails and the quote keep their types, and
   no pass generates more than its cap (generate_for_template). *)
THEOREM ScheduleTypesHold == ScheduleSpec => []ScheduleTypes
<1>1. ScheduleInv => ScheduleTypes
  BY DEF ScheduleInv, SchedulesTyped, NoneSkipped, JobOK, Job, Busy, ScheduleTypes
<1> QED BY <1>1, ScheduleInvariant, PTL

(* For any dates, caps, intervals and numbers of jobs: no occurrence of a template is ever
   skipped, and while no pass fails or overlaps none is invoiced twice, past the end or over
   the number of occurrences, nor is a reminder sent within the interval of another
   (generate_for_template, send_overdue_reminders). *)
THEOREM NothingTwiceOrSkipped == ScheduleSpec => []OccurrencesOnce
<1>1. ScheduleInv => OccurrencesOnce
  <2> SUFFICES ASSUME ScheduleInv PROVE OccurrencesOnce OBVIOUS
  <2>1. \A d \in Days : tmpl.start <= d /\ d < tmpl.next => made[d] >= 1
    BY DEF ScheduleInv, NoneSkipped
  <2>2. ASSUME smooth, SmoothInv
        PROVE  /\ \A d \in Days : made[d] <= 1 /\ (made[d] = 1 => d <= EndDate)
               /\ Cardinality({d \in Days : made[d] > 0}) <= MaxOccurrences
    <3>1. PICK t : t \in RecurringInvoice /\ OnSchedule(t)
      <4>1. CASE \E j \in Jobs : At(j, "generate")
        <5>1. PICK j \in Jobs : At(j, "generate") BY <4>1
        <5>2. PICK q : q = job[j] OBVIOUS
        <5>3. JobOK(q) /\ q.phase = "generate" BY <5>1, <5>2 DEF ScheduleInv, At, Busy
        <5>4. q.seen \in RecurringInvoice BY <5>3 DEF JobOK, NoneSkipped
        <5>5. OnSchedule(job[j].seen) BY <2>2, <5>1 DEF SmoothInv, ScheduleStands
        <5> QED BY <5>2, <5>4, <5>5
      <4>2. CASE \A j \in Jobs : ~At(j, "generate")
        BY <2>2, <4>2 DEF SmoothInv, ScheduleStands, ScheduleInv, NoneSkipped
      <4> QED BY <4>1, <4>2
    <3>2. t.start \in Nat /\ t.next \in Nat /\ t.count \in Nat BY <3>1 DEF RecurringInvoice
    <3>3. \A d \in Days : d \in Nat BY DayAssumption DEF Days
    <3>4. \A d \in Days : made[d] <= 1 /\ (made[d] = 1 => d <= EndDate)
      BY <3>1, <3>2, <3>3, DayAssumption DEF OnSchedule
    <3>5. {d \in Days : made[d] > 0} \subseteq t.start .. t.next - 1
      BY <3>1, <3>2, <3>3 DEF OnSchedule
    <3>6. /\ IsFiniteSet(t.start .. t.next - 1)
          /\ Cardinality(t.start .. t.next - 1) = IF t.start > t.next - 1 THEN 0 ELSE t.next - 1 - t.start + 1
      <4>1. t.start \in Int /\ t.next - 1 \in Int BY <3>2
      <4> QED BY <4>1, FS_Interval, Zenon
    <3>7. Cardinality(t.start .. t.next - 1) <= MaxOccurrences
      BY <3>1, <3>2, <3>6, CountAssumption DEF OnSchedule
    <3>8. /\ IsFiniteSet({d \in Days : made[d] > 0})
          /\ Cardinality({d \in Days : made[d] > 0}) <= Cardinality(t.start .. t.next - 1)
      BY <3>5, <3>6, FS_Subset
    <3>9. /\ Cardinality({d \in Days : made[d] > 0}) \in Nat /\ Cardinality(t.start .. t.next - 1) \in Nat
      BY <3>6, <3>8, FS_CardinalityType
    <3> QED BY <3>4, <3>7, <3>8, <3>9, CountAssumption
  <2>3. smooth => MailsApart BY DEF ScheduleInv, SmoothInv, RemindersStand
  <2> QED BY <2>1, <2>2, <2>3 DEF OccurrencesOnce, ScheduleInv, MailsApart
<1> QED BY <1>1, ScheduleInvariant, PTL
=============================================================================
