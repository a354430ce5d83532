----------------------------- MODULE BackOffice -----------------------------
(***************************************************************************)
(* The desks of one organisation together: documents to decide, members,   *)
(* channel orders, the replenishment planner, the books, sessions, mailed  *)
(* reports, the bank reconciliation, the repair of old counts and demand   *)
(* forecasts.  They share the clients and no table, and none reads what    *)
(* another writes, so a behaviour is about one of them: its desk.          *)
(***************************************************************************)
EXTENDS Approvals, Members, ChannelOrders, Replenishment, Books, Sessions, ReportExports, Bank,
        Repairs, Forecasts

VARIABLE desk

vars == <<documents, members, channel, replenishment, books, sessions, reporting, bank, repairs,
          forecasts, req, overlaps, desk>>

Init ==
  /\ InitRequests /\ InitDocuments /\ InitMembers /\ InitChannel
  /\ InitReplenishment /\ InitBooks /\ InitSessions /\ InitReporting /\ InitBank /\ InitForecasts
  /\ desk \in {"documents", "members", "channel", "planner", "books", "sessions", "exports", "bank",
               "repairs", "forecasts"}
  /\ IF desk = "repairs" THEN InitRepairs ELSE NoRepairs

Documents ==
  /\ desk = "documents"
  /\ UNCHANGED <<members, channel, replenishment, books, sessions, reporting, bank, repairs, forecasts, desk>>
NextDocuments ==
  \/ \E d \in Docs : \E status \in FirstStatus(d) : Documents /\ Create(d, status)
  \/ \E c \in Clients, d \in Docs : \E s \in Steps(d) : Documents /\ Load(c, d, s)
  \/ \E c \in Clients : Documents /\ Commit(c)
  \/ \E p \in Periods : Documents /\ SaveReturn(p)
  \/ \E p \in Periods : Documents /\ SubmitReturn(p)

MemberTables ==
  /\ desk = "members"
  /\ UNCHANGED <<documents, channel, replenishment, books, sessions, reporting, bank, repairs, forecasts, desk>>
NextMembers ==
  \/ \E c \in Clients, actor, u \in Users : \E r \in Requested(u, actor) :
       MemberTables /\ LoadMember(c, actor, u, r)
  \/ \E c \in Clients : MemberTables /\ ChangeRole(c)
  \/ \E c \in Clients : MemberTables /\ ToggleActive(c)
  \/ \E c \in Clients : MemberTables /\ RemoveMember(c)
  \/ \E c \in Clients : MemberTables /\ TickPermissions(c)
  \/ \E actor, u \in Users, role \in Roles : MemberTables /\ Invite(actor, u, role)

Channel ==
  /\ desk = "channel"
  /\ UNCHANGED <<documents, members, replenishment, books, sessions, reporting, bank, repairs, forecasts, desk>>
NextChannel ==
  \/ \E o \in ChannelOrderIds : Channel /\ CreateSalesOrder(o)
  \/ \E o \in ChannelOrderIds : Channel /\ CreatePosted(o)
  \/ \E c \in Clients, o \in ChannelOrderIds : Channel /\ LoadPostSale(c, o)
  \/ \E c \in Clients : Channel /\ CommitPostSale(c)
  \/ \E p \in Parts : Channel /\ Restock(p)

Planner ==
  /\ desk = "planner"
  /\ UNCHANGED <<documents, members, channel, books, sessions, reporting, bank, repairs, forecasts, desk>>
NextPlanner ==
  \/ \E c \in Clients : Planner /\ ShowPlan(c)
  \/ \E c \in Clients, l \in Places : Planner /\ PostReorder(c, l)
  \/ \E c \in Clients : Planner /\ WriteReorder(c)
  \/ \E c \in Clients : Planner /\ ShowLowStock(c)
  \/ \E c \in Clients : Planner /\ LowStockReorder(c)
  \/ \E l \in Places : Planner /\ OrderDirect(l)
  \/ \E i \in Slots : Planner /\ Withdraw(i)
  \/ \E i \in Slots : Planner /\ Convert(i)
  \/ \E i \in Slots : Planner /\ ApproveOrder(i)
  \/ \E i \in Slots : Planner /\ AmendOrder(i)
  \/ \E i \in Slots : Planner /\ ReceiveGoods(i)
  \/ \E l \in Places : Planner /\ DispatchSpare(l)
  \/ \E l \in Places : Planner /\ ReceiveSpare(l)
  \/ \E l \in Places : Planner /\ Sell(l)
  \/ \E l \in Places : Planner /\ Ship(l)

Reporting ==
  /\ desk = "books"
  /\ UNCHANGED <<documents, members, channel, replenishment, sessions, reporting, bank, repairs, forecasts, desk>>
NextBooks ==
  \/ \E cell \in Cells, lines \in Journals : Reporting /\ PostEntry(cell, lines)
  \/ \E t, u \in Companies, day \in 1 .. LastEntryDay, s, r \in Sites \ {NoSite} :
       Reporting /\ IntercompanySale(t, u, day, s, r)
  \/ \E t, u \in Companies, day \in 1 .. LastEntryDay : Reporting /\ UndoIntercompanySale(t, u, day)

Browser ==
  /\ desk = "sessions"
  /\ UNCHANGED <<documents, members, channel, replenishment, books, reporting, bank, repairs, forecasts, desk>>
NextSession ==
  \/ Browser /\ Browse
  \/ \E c \in Clients, l \in Locations \cup {NoLocation} : Browser /\ OpenForm(c, l)
  \/ \E c \in Clients : Browser /\ PostForm(c)
  \/ \E t \in Tenants : Browser /\ SelectCompany(t)
  \/ \E s \in WorkSites : Browser /\ SelectSite(s)
  \/ \E t \in Tenants, s \in WorkSites : Browser /\ SwitchWorkspace(t, s)
  \/ Browser /\ Logout
  \/ \E t \in Tenants : \E ticks \in SUBSET {s \in WorkSites : OrgOf[s] = t} : Browser /\ GrantSites(t, ticks)
  \/ \E t \in Tenants : \E ticks \in SUBSET {l \in Locations : OrgOf[l] = t} : Browser /\ GrantLocations(t, ticks)
  \/ \E s \in WorkSites : Browser /\ EditSite(s)
  \/ \E s \in WorkSites : Browser /\ DeleteSite(s)
  \/ \E l \in Locations, s \in WorkSites : Browser /\ EditLocation(l, s)
  \/ \E t \in Tenants, role \in {"none", "staff", "admin"} : Browser /\ Join(t, role)

Mailing ==
  /\ desk = "exports"
  /\ UNCHANGED <<documents, members, channel, replenishment, books, sessions, bank, repairs, forecasts, desk>>
NextExports ==
  \/ \E x \in Exports, cad \in Cadences : Mailing /\ CreateExport(x, cad)
  \/ \E x \in Exports, cad \in Cadences, active \in BOOLEAN : Mailing /\ EditExport(x, cad, active)
  \/ \E x \in Exports : Mailing /\ DeleteExport(x)
  \/ \E c \in Clients : Mailing /\ LoadBatch(c)
  \/ \E c \in Clients, x \in Exports : Mailing /\ RunNow(c, x)
  \/ \E c \in Clients, fails \in BOOLEAN : Mailing /\ Send(c, fails)
  \/ \E c \in Clients : Mailing /\ SaveOutcome(c)
  \/ \E c \in Clients : Mailing /\ Stop(c)
  \/ Mailing /\ Tick

Reconciling ==
  /\ desk = "bank"
  /\ UNCHANGED <<documents, members, channel, replenishment, books, sessions, reporting, repairs, forecasts, desk>>
NextBank ==
  \/ \E l \in BankLines, amount \in Amounts : Reconciling /\ AddLine(l, amount)
  \/ \E r \in Records : Reconciling /\ PostRecord(r)
  \/ \E r \in Records : Reconciling /\ DeletePayment(r)
  \/ \E c \in Clients : Reconciling /\ OpenReconciliation(c)
  \/ \E c \in Clients : Reconciling /\ SaveReconciliation(c)
  \/ Reconciling /\ AutoMatch

Repairing ==
  /\ desk = "repairs"
  /\ UNCHANGED <<documents, members, channel, replenishment, books, sessions, reporting, bank, forecasts, desk>>
NextRepairs ==
  \/ \E s \in CountSheets, qty \in Counted, utc \in UtcDates(today) : Repairing /\ PostSheet(s, qty, utc)
  \/ \E l \in CountLots \ {NoLot}, cost \in LotCosts \cup {NoCost} : Repairing /\ Relayer(l, cost)
  \/ Repairing /\ NextCountDay
  \/ \E c \in Clients, lock \in 0 .. LastCountDay, posting \in 1 .. LastCountDay, block \in BOOLEAN :
       Repairing /\ LoadRun(c, lock, posting, block)
  \/ \E c \in Clients : Repairing /\ CommitRun(c)

Forecasting ==
  /\ desk = "forecasts"
  /\ UNCHANGED <<documents, members, channel, replenishment, books, sessions, reporting, bank, repairs, desk>>
NextForecasts ==
  \/ \E v \in Versions : Forecasting /\ (Activate(v) \/ Lock(v) \/ Archive(v))
  \/ \E c \in Clients, v \in Versions : Forecasting /\ ClearDefault(c, v)
  \/ \E c \in Clients : Forecasting /\ MakeDefault(c)
  \/ \E c \in Clients, v \in Versions, admin \in BOOLEAN : \E status \in ForecastStatuses, default \in BOOLEAN :
       Forecasting /\ LoadVersion(c, v, admin, [status |-> status, default |-> default])
  \/ \E c \in Clients : Forecasting /\ SaveVersion(c)
  \/ \E c \in Clients, v \in Versions, admin \in BOOLEAN, qty \in Quantities \cup {0} :
       Forecasting /\ LoadLine(c, v, admin, qty)
  \/ \E c \in Clients : Forecasting /\ SaveLine(c)
  \/ \E v \in Versions : Forecasting /\ ResolveForecast(v)
  \/ Forecasting /\ CollectForecast

Next ==
  \/ NextDocuments \/ NextMembers \/ NextChannel \/ NextPlanner \/ NextBooks
  \/ NextSession \/ NextExports \/ NextBank \/ NextRepairs \/ NextForecasts

Spec == Init /\ [][Next]_vars
=============================================================================
