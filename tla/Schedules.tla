------------------------------- MODULE Schedules -------------------------------
(***************************************************************************)
(* The work that recurs by the day: invoices from a recurring template,    *)
(* quotes that expire, reminders of an overdue invoice                     *)
(* (services/housekeeping.py and services/recurring.py, run by the cron    *)
(* command, by the landing page and by the recurring_* endpoints, next to  *)
(* the quote_* endpoints that change a quote).                             *)
(*                                                                         *)
(* Housekeeping is no transaction: each save is committed at once, the     *)
(* template's only after its last invoice, and whatever stops a pass       *)
(* leaves what was saved.  The landing page swallows the exception and     *)
(* tries again at the next page.  The recurring_* and quote_* endpoints    *)
(* are transactions that read their row without a lock.                    *)
(*                                                                         *)
(* A day stands for the template's period, the template and the quote are  *)
(* one each, and the invoice is overdue and its customer has an address.   *)
(***************************************************************************)
EXTENDS Integers, FiniteSetsExt

CONSTANTS
  LastDay,         \* bound: the last day
  Starts,          \* the days a template may start on (RecurringInvoice.start_date)
  MaxOccurrences,  \* RecurringInvoice.max_occurrences
  EndDate,         \* RecurringInvoice.end_date
  SafetyCap,       \* SAFETY_CAP
  ValidUntil,      \* SalesQuote.valid_until
  Interval,        \* Tenant.dunning_interval_days
  Outcomes,        \* the statuses a customer's answer gives a quote
  Jobs,
  NoJob,           \* a job that is not running
  Never,           \* no date yet
  MaxMishaps       \* bound: passes that fail, and that start while another runs

ASSUME DayAssumption == LastDay \in Nat /\ EndDate \in Nat /\ ValidUntil \in Nat
                     /\ Starts \subseteq 0 .. LastDay
ASSUME CountAssumption ==
  MaxOccurrences \in Nat \ {0} /\ SafetyCap \in Nat \ {0} /\ Interval \in Nat \ {0}
ASSUME OutcomeAssumption == Outcomes \subseteq {"ACCEPTED", "DECLINED", "CANCELLED", "CONVERTED"}
ASSUME MishapAssumption == MaxMishaps \in Nat
ASSUME NeverAssumption == Never \notin 0 .. LastDay

Days == 0 .. LastDay

VARIABLES
  today,
  last,     \* Tenant.last_housekeeping_date
  tmpl,     \* RecurringInvoice: is_active, start_date, next_run_date, occurrences
  made,     \* Days -> invoices generated for it
  quote,    \* SalesQuote.status
  dunned,   \* CustomerInvoice.last_reminder_at
  mails,    \* Days -> reminders sent
  job,      \* Jobs -> the pass or request under way
  mishaps   \* history: passes that failed, or started while another ran

scheduleVars == <<today, last, tmpl, made, quote, dunned, mails, job, mishaps>>

RecurringInvoice == [active : BOOLEAN, start : Nat, next : Nat, count : Nat]
Expirable == {"DRAFT", "SENT"}
QuoteStatuses == Expirable \cup Outcomes \cup {"EXPIRED"}

(* A pass or a request under way: seen is the row it has read, n counts the invoices of
   the pass, day is its "today". *)
Job == [op : {"pass", "generate", "edit", "send"},
        phase : {"expire", "generate", "remind", "sent", "finish", "open", "commit"},
        seen : RecurringInvoice \cup QuoteStatuses \cup {Never},
        n : 0 .. SafetyCap,
        day : Days \cup {Never}]
ASSUME JobAssumption == NoJob \notin Job

InitSchedules ==
  /\ today = 0
  /\ last = Never
  /\ \E d \in Starts : tmpl = [active |-> TRUE, start |-> d, next |-> d, count |-> 0]
  /\ made = [d \in Days |-> 0]
  /\ quote = "DRAFT"
  /\ dunned = Never
  /\ mails = [d \in Days |-> 0]
  /\ job = [j \in Jobs |-> NoJob]
  /\ mishaps = 0

smooth == mishaps = 0

(* A pass or a request starts: only passes and generate look at the date. *)
Begin(j, op, phase, seen) ==
  /\ job[j] = NoJob
  /\ IF \A k \in Jobs : job[k] = NoJob
       THEN UNCHANGED mishaps
       ELSE mishaps < MaxMishaps /\ mishaps' = mishaps + 1
  /\ job' = [job EXCEPT ![j] =
                [op |-> op, phase |-> phase, seen |-> seen, n |-> 0,
                 day |-> IF op \in {"pass", "generate"} THEN today ELSE Never]]

At(j, phase) == job[j] # NoJob /\ job[j].phase = phase

End(j) == job' = [job EXCEPT ![j] = NoJob] /\ UNCHANGED mishaps

Goto(j, phase) ==
  /\ job' = [job EXCEPT ![j].phase = phase, ![j].seen = Never, ![j].n = 0]
  /\ UNCHANGED mishaps

-----------------------------------------------------------------------------
(* Slip: one occurrence too many. *)
FinishedLate(t) == t.count > MaxOccurrences \/ t.next > EndDate

(* _finished: the occurrences are used up, or the end date is passed. *)
Finished(t) == t.count >= MaxOccurrences \/ t.next > EndDate

(* Slip: the cap counts the turn about to be taken. *)
IsDueCapEarly(t, day, n) == t.active /\ ~Finished(t) /\ t.next <= day /\ n + 1 < SafetyCap

(* The loop condition of generate_for_template. *)
IsDue(t, day, n) == t.active /\ ~Finished(t) /\ t.next <= day /\ n < SafetyCap

(* One turn of the loop: the schedule moves on, and may be finished. *)
Advanced(t) ==
  LET u == [t EXCEPT !.count = @ + 1, !.next = @ + 1]
  IN  [u EXCEPT !.active = ~Finished(u)]

(* How often the loop turns. *)
Turns(t, day) ==
  IF ~t.active THEN 0
  ELSE Max({0} \cup {k \in 1 .. SafetyCap :
         t.count + k <= MaxOccurrences /\ t.next + k - 1 <= Min({day, EndDate})})

-----------------------------------------------------------------------------
(* run_for_tenant: the cron command forces it, a page load runs it once a day. *)
BeginPass(j, forced) ==
  /\ forced \/ last # today
  /\ Begin(j, "pass", "expire", Never)
  /\ UNCHANGED <<today, last, tmpl, made, quote, dunned, mails>>

(* expire_quotes: one UPDATE; generate_due then reads the active templates. *)
Expire(j) ==
  /\ At(j, "expire")
  /\ quote' = IF quote \in Expirable /\ ValidUntil < job[j].day THEN "EXPIRED" ELSE quote
  /\ job' = [job EXCEPT ![j].phase = IF tmpl.active THEN "generate" ELSE "remind",
                        ![j].seen = IF tmpl.active THEN tmpl ELSE Never]
  /\ UNCHANGED <<today, last, tmpl, made, dunned, mails, mishaps>>

(* One invoice of generate_for_template, saved at once. *)
Generate(j) ==
  /\ At(j, "generate") /\ IsDue(job[j].seen, job[j].day, job[j].n)
  /\ made' = [made EXCEPT ![job[j].seen.next] = @ + 1]
  /\ job' = [job EXCEPT ![j].seen = Advanced(@), ![j].n = @ + 1]
  /\ UNCHANGED <<today, last, tmpl, quote, dunned, mails, mishaps>>

(* The template is saved after the loop, as the pass has it. *)
SaveTemplate(j) ==
  /\ At(j, "generate") /\ ~IsDue(job[j].seen, job[j].day, job[j].n)
  /\ tmpl' = job[j].seen
  /\ Goto(j, "remind")
  /\ UNCHANGED <<today, last, made, quote, dunned, mails>>

ReminderIsDue(seen, day) == seen = Never \/ day - seen >= Interval

(* send_overdue_reminders reads the invoice and sends the mail ... *)
Remind(j) ==
  /\ At(j, "remind")
  /\ IF ReminderIsDue(dunned, job[j].day)
       THEN mails' = [mails EXCEPT ![job[j].day] = @ + 1] /\ Goto(j, "sent")
       ELSE UNCHANGED mails /\ Goto(j, "finish")
  /\ UNCHANGED <<today, last, tmpl, made, quote, dunned>>

(* ... and the date saved. *)
SaveReminder(j) ==
  /\ At(j, "sent")
  /\ dunned' = job[j].day
  /\ Goto(j, "finish")
  /\ UNCHANGED <<today, last, tmpl, made, quote, mails>>

Finish(j) ==
  /\ At(j, "finish")
  /\ last' = job[j].day
  /\ End(j)
  /\ UNCHANGED <<today, tmpl, made, quote, dunned, mails>>

-----------------------------------------------------------------------------
(* recurring_generate, recurring_run_due: the same loop in one transaction. *)
LoadGenerate(j) ==
  /\ tmpl.active
  /\ Begin(j, "generate", "commit", tmpl)
  /\ UNCHANGED <<today, last, tmpl, made, quote, dunned, mails>>

CommitGenerate(j) ==
  LET t == job[j].seen  k == Turns(t, job[j].day)
      u == [t EXCEPT !.count = @ + k, !.next = @ + k]
  IN  /\ At(j, "commit") /\ job[j].op = "generate"
      /\ made' = [d \in Days |-> made[d] + IF d \in t.next .. t.next + k - 1 THEN 1 ELSE 0]
      /\ tmpl' = IF k = 0 THEN t ELSE [u EXCEPT !.active = ~Finished(u)]
      /\ End(j)
      /\ UNCHANGED <<today, last, quote, dunned, mails>>

(* recurring_toggle. *)
Toggle ==
  /\ tmpl' = [tmpl EXCEPT !.active = ~@]
  /\ UNCHANGED <<today, last, made, quote, dunned, mails, job, mishaps>>

(* recurring_edit: the form posts back the date it was opened with, and the whole
   row is saved as it was read when the form was posted. *)
LoadEdit(j) ==
  /\ Begin(j, "edit", "open", tmpl)
  /\ UNCHANGED <<today, last, tmpl, made, quote, dunned, mails>>

PostEdit(j) ==
  /\ At(j, "open")
  /\ job' = [job EXCEPT ![j].phase = "commit", ![j].seen = [tmpl EXCEPT !.next = job[j].seen.next]]
  /\ UNCHANGED <<today, last, tmpl, made, quote, dunned, mails, mishaps>>

CommitEdit(j) ==
  /\ At(j, "commit") /\ job[j].op = "edit"
  /\ tmpl' = job[j].seen
  /\ End(j)
  /\ UNCHANGED <<today, last, made, quote, dunned, mails>>

(* quote_send: the mail goes out between reading the quote and saving it. *)
LoadSend(j) ==
  /\ Begin(j, "send", "commit", quote)
  /\ UNCHANGED <<today, last, tmpl, made, quote, dunned, mails>>

CommitSend(j) ==
  /\ At(j, "commit") /\ job[j].op = "send"
  /\ quote' = IF job[j].seen = "DRAFT" THEN "SENT" ELSE job[j].seen
  /\ End(j)
  /\ UNCHANGED <<today, last, tmpl, made, dunned, mails>>

(* quote_status, quote_to_order, quote_to_invoice: from any status. *)
SetQuote(status) ==
  /\ quote' = status
  /\ UNCHANGED <<today, last, tmpl, made, dunned, mails, job, mishaps>>

(* A pass fails or its process dies; what it saved stays.  A transaction that
   fails leaves nothing, and is no mishap. *)
JobFails(j) ==
  /\ job[j] # NoJob
  /\ job' = [job EXCEPT ![j] = NoJob]
  /\ IF job[j].op = "pass" THEN mishaps < MaxMishaps /\ mishaps' = mishaps + 1
                           ELSE UNCHANGED mishaps
  /\ UNCHANGED <<today, last, tmpl, made, quote, dunned, mails>>

NextDay ==
  /\ today < LastDay
  /\ today' = today + 1
  /\ UNCHANGED <<last, tmpl, made, quote, dunned, mails, job, mishaps>>

JobStep(j) ==
  \/ Expire(j) \/ Generate(j) \/ SaveTemplate(j) \/ Remind(j)
  \/ SaveReminder(j) \/ Finish(j)
  \/ CommitGenerate(j) \/ PostEdit(j) \/ CommitEdit(j) \/ CommitSend(j)

Cron == \E j \in Jobs : BeginPass(j, TRUE)

NextSchedules ==
  \/ NextDay \/ Toggle \/ Cron
  \/ \E status \in Outcomes : SetQuote(status)
  \/ \E j \in Jobs :
       \/ BeginPass(j, FALSE) \/ LoadGenerate(j) \/ LoadEdit(j) \/ LoadSend(j)
       \/ JobStep(j) \/ JobFails(j)

(* The cron command is started again and again, and what runs goes on or fails;
   a form is posted or given up, for left open it would hold a job of the model
   and nothing of the program. *)
Fairness == SF_scheduleVars(Cron) /\ \A j \in Jobs : WF_scheduleVars(JobStep(j))

ScheduleSpec == InitSchedules /\ [][NextSchedules]_scheduleVars
FairSpec == ScheduleSpec /\ Fairness

-----------------------------------------------------------------------------
(* Every variable keeps its type, and a pass never generates more than the cap. *)
ScheduleTypes ==
  /\ today \in Days /\ last \in Days \cup {Never}
  /\ tmpl \in RecurringInvoice /\ made \in [Days -> Nat]
  /\ quote \in QuoteStatuses
  /\ dunned \in Days \cup {Never} /\ mails \in [Days -> Nat]
  /\ \A j \in Jobs : job[j] = NoJob \/ job[j].n \in 0 .. SafetyCap
  /\ mishaps \in 0 .. MaxMishaps

Overdue(t) == t.active /\ ~Finished(t) /\ t.next <= today

(* Whatever fails or overlaps, no occurrence is skipped: each date from the template's
   start to before its next one has its invoice, for the template is saved after its
   invoices.  Unless a pass fails or two overlap, nothing is done twice: no occurrence is
   invoiced twice, nor past the end date or the number of occurrences, and reminders are
   an interval apart, "at most once per `dunning_interval_days` per invoice"
   (generate_for_template, send_overdue_reminders). *)
OccurrencesOnce ==
  /\ \A d \in Days : tmpl.start <= d /\ d < tmpl.next => made[d] >= 1
  /\ smooth => /\ \A d \in Days : made[d] <= 1 /\ (made[d] = 1 => d <= EndDate)
               /\ Cardinality({d \in Days : made[d] > 0}) <= MaxOccurrences
               /\ \A d \in Days : mails[d] <= 1
               /\ \A d, e \in Days : mails[d] > 0 /\ mails[e] > 0 /\ d < e => e - d >= Interval

(* Due work is done in the end, whatever failed or was missed: a due template is
   caught up with unless it is paused, and an open quote does not outlive its
   validity for ever, though a request that read it before may write its old
   status back. *)
DueWorkIsDone ==
  /\ Overdue(tmpl) ~> ~Overdue(tmpl)
  /\ quote \in Expirable /\ ValidUntil < today ~> quote \notin Expirable
=============================================================================
