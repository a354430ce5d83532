-------------------------------- MODULE OpenItem --------------------------------
(* What a sales ledger promises of each invoice, whatever screens are used: it  *)
(* is booked once, takes money only while it is open and never more than was    *)
(* booked, and is written back at most once, when no money is on it.  The        *)
(* promise about money is made to requests that did not overlap (calm).         *)
EXTENDS Integers

CONSTANT Invoices

VARIABLES
  phase,  \* Invoices -> "new", "open" or "closed"
  due,    \* Invoices -> the amount booked
  paid,   \* Invoices -> the money settled against it
  calm    \* has no request overlapped another so far?

vars == <<phase, due, paid, calm>>

Init ==
  /\ phase = [i \in Invoices |-> "new"]
  /\ due = [i \in Invoices |-> 0]
  /\ paid = [i \in Invoices |-> 0]
  /\ calm = TRUE

Book(i) ==
  /\ phase[i] = "new" /\ phase'[i] = "open"
  /\ due'[i] > 0
  /\ paid'[i] = paid[i]

Settle(i) ==
  /\ phase'[i] = phase[i] /\ due'[i] = due[i]
  /\ paid'[i] > paid[i]
  /\ calm' => phase[i] = "open" /\ paid'[i] <= due[i]

Release(i) ==
  /\ phase'[i] = phase[i] /\ due'[i] = due[i]
  /\ paid'[i] < paid[i]

WriteBack(i) ==
  /\ phase[i] = "open" /\ phase'[i] = "closed"
  /\ due'[i] = due[i] /\ paid'[i] = paid[i]
  /\ calm' => paid[i] = 0

Keep(i) == phase'[i] = phase[i] /\ due'[i] = due[i] /\ paid'[i] = paid[i]

(* One receipt may settle several invoices: a step is one of every item. *)
Next ==
  /\ calm' => calm
  /\ \A i \in Invoices : Book(i) \/ Settle(i) \/ Release(i) \/ WriteBack(i) \/ Keep(i)

Spec == Init /\ [][Next]_vars
=============================================================================
