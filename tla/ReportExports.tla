---------------------------- MODULE ReportExports ----------------------------
(***************************************************************************)
(* Reports that are mailed on a cadence (services/mrp/scheduled_export.py, *)
(* its command, the scheduled_export_* endpoints): a batch of the          *)
(* scheduler, "run now" and edits.                                         *)
(*                                                                         *)
(* A delivery reads the export, sends the mail and only then saves when    *)
(* the next one is due.                                                    *)
(***************************************************************************)
EXTENDS Requests, Integers, FiniteSetsExt

CONSTANTS
  Exports,
  Cadences,       \* frequency, day (of the week or the month, from 0) and time of day
  TicksPerDay, DaysPerWeek, DaysPerMonth, ShortestMonth,
  LastTick,       \* bound: the clock runs from 0 to LastTick
  MaxStops        \* bound: deliveries that fail, processes that stop

ASSUME ReportExportsAssumption ==
  /\ {TicksPerDay, DaysPerWeek, DaysPerMonth, ShortestMonth} \subseteq Nat \ {0}
  /\ ShortestMonth <= DaysPerMonth /\ LastTick \in Nat /\ MaxStops \in Nat
  /\ Cadences \subseteq [freq : {"DAILY", "WEEKLY", "MONTHLY"}, day : Nat, at : 0 .. TicksPerDay - 1]

(* A row of ScheduledReportExport, and what a process that delivers some of them knows. *)
ExportRow ==
  [cad : Cadences, active : BOOLEAN, status : {"NEVER_RUN", "SUCCESS", "FAILED"}, next : Int]
DeliveryOf(D) == [rows : [D -> ExportRow], todo : SUBSET D, sent : BOOLEAN, at : Int]

ASSUME DeliveryAssumption == \A D \in SUBSET Exports : Idle \notin DeliveryOf(D)

VARIABLES
  exports,     \* ScheduledReportExport rows, or NoExport
  clock,
  served,      \* history: exports -> the last due time a delivery was for
  again,       \* history: exports that were delivered again for that time
  since,       \* history: exports -> when a due time was last worked out
  stops

reporting == <<exports, clock, served, again, since, stops>>

NoExport == [status |-> "none"]
Never == -1

InitReporting ==
  /\ exports = [x \in Exports |-> NoExport]
  /\ clock = 0 /\ stops = 0
  /\ served = [x \in Exports |-> Never] /\ again = {}
  /\ since = [x \in Exports |-> Never]

-----------------------------------------------------------------------------
(* The time of this day, week or month, which may have passed. *)
Candidate(cad, now) ==
  LET today == now \div TicksPerDay
      day == CASE cad.freq = "DAILY"   -> today
               [] cad.freq = "WEEKLY"  -> today + ((cad.day - today) % DaysPerWeek)
               [] cad.freq = "MONTHLY" -> today - (today % DaysPerMonth) + Min({cad.day, ShortestMonth - 1})
  IN  day * TicksPerDay + cad.at

Cycle(cad) ==
  TicksPerDay * CASE cad.freq = "DAILY" -> 1 [] cad.freq = "WEEKLY" -> DaysPerWeek
                  [] cad.freq = "MONTHLY" -> DaysPerMonth

(* Slip: a run at the very minute it was due does not count for that time. *)
NextRunAgain(cad, now) ==
  IF Candidate(cad, now) < now THEN Candidate(cad, now) + Cycle(cad) ELSE Candidate(cad, now)

(* compute_next_run. *)
NextRun(cad, now) ==
  IF Candidate(cad, now) <= now THEN Candidate(cad, now) + Cycle(cad) ELSE Candidate(cad, now)

Planned(x) == exports[x] # NoExport

(* due_exports. *)
DueExports == {x \in Exports : Planned(x) /\ exports[x].active /\ exports[x].next <= clock}

-----------------------------------------------------------------------------
(* The form is saved: the next run is worked out from now, whatever was due. *)
SaveExport(x, cad, active) ==
  /\ exports' = [exports EXCEPT ![x] =
       [cad |-> cad, active |-> active, status |-> IF Planned(x) THEN @.status ELSE "NEVER_RUN",
        next |-> NextRun(cad, clock)]]
  /\ since' = [since EXCEPT ![x] = clock]

CreateExport(x, cad) ==
  /\ ~Planned(x) /\ Start
  /\ SaveExport(x, cad, TRUE)
  /\ UNCHANGED <<clock, served, again, stops, req>>

EditExport(x, cad, active) ==
  /\ Planned(x) /\ Start
  /\ SaveExport(x, cad, active)
  /\ UNCHANGED <<clock, served, again, stops, req>>

DeleteExport(x) ==
  /\ Planned(x) /\ Start
  /\ exports' = [exports EXCEPT ![x] = NoExport]
  /\ UNCHANGED <<clock, served, again, since, stops, req>>

(* The command reads all that is due; "run now" reads one, due or not. *)
LoadBatch(c) ==
  /\ req[c] = Idle /\ DueExports # {} /\ Start
  /\ req' = [req EXCEPT ![c] =
       [rows |-> [x \in DueExports |-> exports[x]], todo |-> DueExports, sent |-> FALSE, at |-> clock]]
  /\ UNCHANGED reporting

RunNow(c, x) ==
  /\ req[c] = Idle /\ Planned(x) /\ Start
  /\ req' = [req EXCEPT ![c] =
       [rows |-> [y \in {x} |-> exports[y]], todo |-> {x}, sent |-> FALSE, at |-> clock]]
  /\ UNCHANGED reporting

Current(c) == CHOOSE x \in req[c].todo : TRUE

(* deliver_export, up to the mail, which may fail. *)
Send(c, fails) ==
  /\ req[c] # Idle /\ ~req[c].sent
  /\ fails => stops < MaxStops
  /\ stops' = IF fails THEN stops + 1 ELSE stops
  /\ LET x == Current(c)
         row == req[c].rows[x]
         due == row.next <= clock
     IN  /\ served' = IF due THEN [served EXCEPT ![x] = row.next] ELSE served
         /\ again' = IF due /\ served[x] = row.next THEN again \cup {x} ELSE again
         /\ req' = [req EXCEPT ![c].sent = TRUE, ![c].at = clock,
              ![c].rows[x].status = IF fails THEN "FAILED" ELSE "SUCCESS"]
  /\ UNCHANGED <<exports, clock, since, overlaps>>

(* The outcome and the next due time are saved, by the cadence that was read.  An export
   deleted meanwhile has no row to update. *)
SaveOutcome(c) ==
  /\ req[c] # Idle /\ req[c].sent
  /\ LET x == Current(c)
         row == req[c].rows[x]
         rest == req[c].todo \ {x}
     IN  /\ exports' = IF Planned(x)
              THEN [exports EXCEPT ![x].status = row.status, ![x].next = NextRun(row.cad, req[c].at)]
              ELSE exports
         /\ since' = [since EXCEPT ![x] = req[c].at]
         /\ req' = [req EXCEPT ![c] =
              IF rest = {} \/ ~Planned(x) THEN Idle ELSE [@ EXCEPT !.todo = rest, !.sent = FALSE]]
  /\ UNCHANGED <<clock, served, again, stops, overlaps>>

(* The process ends in the middle of a delivery. *)
Stop(c) ==
  /\ req[c] # Idle /\ stops < MaxStops
  /\ stops' = stops + 1
  /\ req' = [req EXCEPT ![c] = Idle]
  /\ UNCHANGED <<exports, clock, served, again, since, overlaps>>

Tick ==
  /\ clock < LastTick
  /\ clock' = clock + 1
  /\ UNCHANGED <<exports, served, again, since, stops, req, overlaps>>

-----------------------------------------------------------------------------
OnCadence(cad, t) ==
  LET day == t \div TicksPerDay
  IN  /\ t % TicksPerDay = cad.at
      /\ \/ cad.freq = "DAILY"
         \/ cad.freq = "WEEKLY" /\ day % DaysPerWeek = cad.day % DaysPerWeek
         \/ cad.freq = "MONTHLY" /\ day % DaysPerMonth = Min({cad.day, ShortestMonth - 1})

(* While requests and batches do not overlap and no process stops half-way, a due time is
   never served twice, by the scheduler or by hand, and the next one is the first time of
   the cadence after the export was last sent or saved. *)
ExportsKeepCadence ==
  calm /\ stops = 0 =>
    \A x \in Exports :
      /\ x \notin again
      /\ Planned(x) => LET row == exports[x]
                      IN  /\ row.next > since[x] /\ OnCadence(row.cad, row.next)
                          /\ \A t \in since[x] + 1 .. row.next - 1 : ~OnCadence(row.cad, t)
=============================================================================
