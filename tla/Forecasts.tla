------------------------------ MODULE Forecasts ------------------------------
(***************************************************************************)
(* Demand forecasts: their versions as planners activate, lock, archive    *)
(* and edit them (the forecast_* endpoints of views.py), and the MRP run   *)
(* that plans from one of them (demand_collector.py).  A version has one   *)
(* line here, for one item at one site and date; a quantity of 0 is no     *)
(* line, which makes no demand either.                                     *)
(***************************************************************************)
EXTENDS Requests, FiniteSets

CONSTANTS
  Versions,
  NoVersion,
  Quantities   \* of a forecast line

ASSUME QuantityAssumption == Quantities \subseteq Nat /\ NoVersion \notin Versions

VARIABLES
  version,  \* Versions -> ForecastVersion.status and is_default
  line,     \* Versions -> ForecastLine.quantity
  plan,     \* the last MRP run from a locked version, and its demand, followed until the
            \* version is unlocked, an admin changes it or a change begun before the run lands
  formed    \* history: a form has made a version the default

forecasts == <<version, line, plan, formed>>

ForecastStatuses == {"DRAFT", "ACTIVE", "LOCKED", "ARCHIVED"}
Selectable == {"ACTIVE", "LOCKED"}

NoPlan == [version |-> NoVersion, phase |-> "none", demand |-> 0, late |-> {}]

InitForecasts ==
  /\ version = [v \in Versions |-> [status |-> "DRAFT", default |-> FALSE]]
  /\ line = [v \in Versions |-> 0]
  /\ plan = NoPlan /\ formed = FALSE

(* A change of version v that only an admin may make while it is locked. *)
Lapse(v) == plan' = IF v = plan.version THEN NoPlan ELSE plan

-----------------------------------------------------------------------------
(* forecast_version_action.  Any planner may activate a locked version; only unlocking
   it is for an admin. *)
Activate(v) ==
  /\ version' = [version EXCEPT ![v].status = "ACTIVE"]
  /\ Lapse(v) /\ Start
  /\ UNCHANGED <<line, formed, req>>

Lock(v) ==
  /\ version' = [version EXCEPT ![v].status = "LOCKED"]
  /\ Start
  /\ UNCHANGED <<line, plan, formed, req>>

Archive(v) ==
  /\ version' = [version EXCEPT ![v] = [status |-> "ARCHIVED", default |-> FALSE]]
  /\ Lapse(v) /\ Start
  /\ UNCHANGED <<line, formed, req>>

(* set_default: no version is the default, then the chosen one is, in two statements
   that no transaction holds together. *)
ClearDefault(c, v) ==
  /\ req[c] = Idle
  /\ version' = [u \in Versions |-> [version[u] EXCEPT !.default = FALSE]]
  /\ req' = [req EXCEPT ![c] = [op |-> "default", version |-> v]]
  /\ Start
  /\ UNCHANGED <<line, plan, formed>>

MakeDefault(c) ==
  /\ req[c] # Idle /\ req[c].op = "default"
  /\ version' = [version EXCEPT ![req[c].version].default = TRUE]
  /\ req' = [req EXCEPT ![c] = Idle]
  /\ UNCHANGED <<line, plan, formed, overlaps>>

-----------------------------------------------------------------------------
(* A locked version is for admins (_can_manage_locked_forecast). *)
VersionGuard(v, admin) == version[v].status = "LOCKED" => admin

(* Slip: only archived versions are protected. *)
LineGuardArchived(v, admin) == version[v].status # "ARCHIVED"

(* _forecast_line_guard *)
LineGuard(v, admin) == VersionGuard(v, admin) /\ version[v].status # "ARCHIVED"

(* forecast_version_edit: the form holds the status and the default as well, and
   replaces whatever the version has become. *)
LoadVersion(c, v, admin, form) ==
  /\ req[c] = Idle /\ VersionGuard(v, admin)
  /\ req' = [req EXCEPT ![c] = [op |-> "version", version |-> v, form |-> form]]
  /\ Start
  /\ UNCHANGED forecasts

SaveVersion(c) ==
  LET r == req[c]
  IN  /\ r # Idle /\ r.op = "version"
      /\ version' = [version EXCEPT ![r.version] = r.form]
      /\ IF r.form.status = "LOCKED" THEN UNCHANGED plan ELSE Lapse(r.version)
      /\ formed' = (formed \/ r.form.default)
      /\ req' = [req EXCEPT ![c] = Idle]
      /\ UNCHANGED <<line, overlaps>>

(* forecast_line_create, _edit and _delete. *)
LoadLine(c, v, admin, qty) ==
  /\ req[c] = Idle /\ LineGuard(v, admin) /\ line[v] # qty
  /\ req' = [req EXCEPT ![c] = [op |-> "line", version |-> v, qty |-> qty]]
  /\ IF admin THEN Lapse(v) ELSE UNCHANGED plan
  /\ Start
  /\ UNCHANGED <<version, line, formed>>

SaveLine(c) ==
  LET r == req[c]
  IN  /\ r # Idle /\ r.op = "line"
      /\ line' = [line EXCEPT ![r.version] = r.qty]
      /\ plan' = IF c \in plan.late THEN NoPlan ELSE plan
      /\ req' = [req EXCEPT ![c] = Idle]
      /\ UNCHANGED <<version, formed, overlaps>>

-----------------------------------------------------------------------------
(* The requests that passed the guard of v's line and have not saved it yet. *)
Changing(v) == {c \in Clients : req[c] # Idle /\ req[c].op = "line" /\ req[c].version = v}

(* resolve_forecast_version: a run looks at the status of its version once ... *)
ResolveForecast(v) ==
  /\ plan.phase # "resolved" /\ version[v].status \in Selectable
  /\ plan' = IF version[v].status = "LOCKED"
               THEN [version |-> v, phase |-> "resolved", demand |-> 0, late |-> Changing(v)]
               ELSE NoPlan
  /\ UNCHANGED <<version, line, formed, req, overlaps>>

(* ... and _collect_forecast reads the line later, when it plans the item. *)
CollectForecast ==
  /\ plan.phase = "resolved"
  /\ plan' = [plan EXCEPT !.phase = "collected", !.demand = line[plan.version]]
  /\ UNCHANGED <<version, line, formed, req, overlaps>>

-----------------------------------------------------------------------------
(* What a run planned for is still what its version says as long as that stays locked,
   whatever requests race: only an admin changes a locked version ("This forecast version
   is locked"), but for a request that passed the guard before and saves its line after
   the run began, which nothing stops.  One request at a time, set_default leaves one
   default, unless the form of a version made another. *)
ForecastsHold ==
  /\ plan.phase = "collected" => plan.demand = line[plan.version]
  /\ calm /\ ~formed => Cardinality({v \in Versions : version[v].default}) <= 1
=============================================================================
