-------------------------------- MODULE Books --------------------------------
(***************************************************************************)
(* The reports of the general ledger, and those of a group of companies    *)
(* that sell to each other (services/reports.py, services/intercompany.py, *)
(* report_* and intercompany_* endpoints of views.py).                     *)
(*                                                                         *)
(* The ledger is kept by company, entry date and site; what other modules  *)
(* post arrives here as balanced entries of one unit.                      *)
(***************************************************************************)
EXTENDS Requests, Integers, FiniteSetsExt, Functions

CONSTANTS
  Companies, Sites,
  NoSite,        \* in Sites: the entries of the company itself
  LastEntryDay,  \* entry dates are 1 .. LastEntryDay
  MaxEntries     \* bound: entries posted

Cells == Companies \X (1 .. LastEntryDay) \X Sites

ASSUME BooksAssumption ==
  /\ LastEntryDay \in Nat /\ MaxEntries \in Nat
  /\ IsFiniteSet(Companies) /\ IsFiniteSet(Sites) /\ NoSite \in Sites

(* GLAccount.type of the accounts that are posted to. *)
AccountType ==
  [bank |-> "ASSET", ar |-> "ASSET", inventory |-> "ASSET", ap |-> "LIABILITY",
   capital |-> "EQUITY", sales |-> "INCOME", cogs |-> "COGS", expense |-> "EXPENSE"]
Accounts == DOMAIN AccountType

VARIABLES
  book,     \* cells -> accounts -> debits less credits of the JournalLines
  icTrade,  \* InterCompanyTransaction: from, to, and how often
  undone,   \* history: inter-company sales that were written back by their seller
  sold,     \* history: companies -> invoices to customers outside the group
  bought,   \* history: companies -> expenses of suppliers outside the group
  entries

books == <<book, icTrade, undone, sold, bought, entries>>

NoTrade == [p \in Companies \X Companies |-> 0]

InitBooks ==
  /\ book = [c \in Cells |-> [a \in Accounts |-> 0]]
  /\ icTrade = NoTrade /\ undone = NoTrade
  /\ sold = [t \in Companies |-> 0] /\ bought = sold
  /\ entries = 0

-----------------------------------------------------------------------------
(* A journal of two lines, debit and credit. *)
Lines2(dr, cr) == [a \in Accounts |-> IF a = dr THEN 1 ELSE IF a = cr THEN -1 ELSE 0]

(* The journals of gl.py, with the accounts they debit and credit. *)
Journals ==
  {Lines2("ar", "sales"), Lines2("cogs", "inventory"), Lines2("bank", "ar"),
   Lines2("inventory", "ap"), Lines2("expense", "ap"), Lines2("ap", "bank"),
   Lines2("bank", "capital")}

Booked(b, cell, lines) == [b EXCEPT ![cell] = [a \in Accounts |-> @[a] + lines[a]]]

Count == entries < MaxEntries /\ entries' = entries + 1

PostEntry(cell, lines) ==
  /\ Count
  /\ book' = Booked(book, cell, lines)
  /\ sold' = [sold EXCEPT ![cell[1]] = @ - lines["sales"]]
  /\ bought' = [bought EXCEPT ![cell[1]] = @ + lines["expense"]]
  /\ UNCHANGED <<icTrade, undone, req, overlaps>>

(* Slip: the buyer's side is not recorded as part of the trade. *)
IntercompanySaleUnlinked(from, to, day, s, r) ==
  /\ Count /\ from # to
  /\ book' = Booked(Booked(book, <<from, day, s>>, Lines2("ar", "sales")),
                    <<to, day, r>>, Lines2("expense", "ap"))
  /\ UNCHANGED <<icTrade, undone, sold, bought, req, overlaps>>

(* create_intercompany_sale: an invoice of the seller, at its site, and an expense of the
   buyer, of one amount, and the record that links them. *)
IntercompanySale(from, to, day, s, r) ==
  /\ Count /\ from # to
  /\ book' = Booked(Booked(book, <<from, day, s>>, Lines2("ar", "sales")),
                    <<to, day, r>>, Lines2("expense", "ap"))
  /\ icTrade' = [icTrade EXCEPT ![<<from, to>>] = @ + 1]
  /\ UNCHANGED <<undone, sold, bought, req, overlaps>>

(* The seller cancels the invoice: the reversal is an entry without a site, and the record
   of the trade stays. *)
UndoIntercompanySale(from, to, day) ==
  /\ Count /\ undone[<<from, to>>] < icTrade[<<from, to>>]
  /\ book' = Booked(book, <<from, day, NoSite>>, Lines2("sales", "ar"))
  /\ undone' = [undone EXCEPT ![<<from, to>>] = @ + 1]
  /\ UNCHANGED <<icTrade, sold, bought, req, overlaps>>

-----------------------------------------------------------------------------
DebitNormal == {"ASSET", "EXPENSE", "COGS"}

(* account_balances: signed by the account's natural side. *)
Balance(cells, a) ==
  LET net == SumFunction([c \in cells |-> book[c][a]])
  IN  IF AccountType[a] \in DebitNormal THEN net ELSE -net

OfType(types) == {a \in Accounts : AccountType[a] \in types}
SumOf(cells, types) == SumFunction([a \in OfType(types) |-> Balance(cells, a)])

(* What a page asks the reports for: all sites or a chosen one, everything up to a date
   or the entries of a period. *)
SiteFilter == {Sites} \cup {{s} : s \in Sites \ {NoSite}}
Upto(t, day, at) == {<<t, d, s>> : d \in 1 .. day, s \in at}
During(t, from, to, at) == {<<t, d, s>> : d \in from .. to, s \in at}

(* trial_balance: a negative balance is shown on the other side. *)
Shown(n) == Max({n, 0})
TrialDebit(cells) ==
  SumFunction([a \in Accounts |-> IF AccountType[a] \in DebitNormal THEN Shown(Balance(cells, a))
                                  ELSE Shown(-Balance(cells, a))])
TrialCredit(cells) ==
  SumFunction([a \in Accounts |-> IF AccountType[a] \in DebitNormal THEN Shown(-Balance(cells, a))
                                  ELSE Shown(Balance(cells, a))])

(* profit_and_loss, and balance_sheet with the earnings so far in its equity. *)
Revenue(cells) == SumOf(cells, {"INCOME"})
NetProfit(cells) == Revenue(cells) - SumOf(cells, {"COGS"}) - SumOf(cells, {"EXPENSE"})
Equity(cells) == SumOf(cells, {"EQUITY"}) + NetProfit(cells)

(* cash_flow_summary: what came before the period, and the bank lines in it. *)
CashClosing(t, from, to) ==
  Balance(Upto(t, from - 1, Sites), "bank")
  + SumFunction([c \in During(t, from, to, Sites) |-> book[c]["bank"]])

(* consolidated: inter-company trade within the scope is taken off both sides. *)
Eliminations(scope) == SumFunctionOnSet(icTrade, scope \X scope)
CellsOf(scope) == {c \in Cells : c[1] \in scope}
NetRevenue(scope) == Revenue(CellsOf(scope)) - Eliminations(scope)
NetExpenses(scope) == SumOf(CellsOf(scope), {"EXPENSE"}) - Eliminations(scope)

-----------------------------------------------------------------------------
(* The reports agree with each other, for every company, date and choice of sites: the
   trial balance and the balance sheet balance, earnings grow by the profit of the day,
   and the cash flow of any period closes with the bank account's balance.  And whichever
   companies of a group are consolidated, their revenue is what they sold to others and
   their expenses what they bought from others; a sale inside the scope that its seller
   wrote back is the exception, for it stays eliminated. *)
ReportsAgree == entries > 0 =>
  /\ \A t \in Companies, d \in 1 .. LastEntryDay, at \in SiteFilter :
       LET upto == Upto(t, d, at)
       IN  /\ TrialDebit(upto) = TrialCredit(upto)
           /\ SumOf(upto, {"ASSET"}) = SumOf(upto, {"LIABILITY"}) + Equity(upto)
           /\ NetProfit(upto) = NetProfit(Upto(t, d - 1, at)) + NetProfit(During(t, d, d, at))
           /\ \A f \in 1 .. d : CashClosing(t, f, d) = Balance(Upto(t, d, Sites), "bank")
  /\ \A scope \in (SUBSET Companies) \ {{}} :
       LET others == Companies \ scope
       IN  SumFunctionOnSet(undone, scope \X scope) = 0 =>
             /\ NetRevenue(scope) = SumFunctionOnSet(sold, scope)
                  + SumFunctionOnSet(icTrade, scope \X others)
                  - SumFunctionOnSet(undone, scope \X others)
             /\ NetExpenses(scope) = SumFunctionOnSet(bought, scope)
                  + SumFunctionOnSet(icTrade, others \X scope)
=============================================================================
