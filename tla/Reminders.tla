------------------------------ MODULE Reminders ------------------------------
(***************************************************************************)
(* Reminders of a customer's vehicle: apps/api/src/reminders/              *)
(* reminders.service.ts.  A rule gives the vehicle a plan, each schedule   *)
(* of the plan gives a reminder, the scan of due reminders queues it, and  *)
(* a background job hands it to the messaging service, which sends it.     *)
(*                                                                         *)
(* Nothing here locks what it reads: a plan, the due reminders, the        *)
(* customer's choice and the messages that arrived are read in steps of    *)
(* their own.  One notice per rule; a rule may also go by kilometres.      *)
(***************************************************************************)
EXTENDS Naturals

CONSTANTS
    Rule,             \* active reminder rules
    ByKilometres,     \* those that wait for the odometer
    Reminding,        \* requests, scans and background jobs in progress
    MaxCarVersion,    \* bound: corrections of the vehicle
    MaxSchedule,      \* bound: schedules of a plan
    MaxDispatches     \* attempts before the dead letter (5 in the code)

ASSUME ReminderAssumption ==
    /\ ByKilometres \subseteq Rule
    /\ MaxCarVersion \in Nat \ {0} /\ MaxSchedule \in Nat \ {0} /\ MaxDispatches \in Nat \ {0}

VARIABLES
    carVersion,   \* customer_vehicles.version
    plans,        \* customer_reminder_plans
    reminders,    \* reminder_instances, by rule and schedule
    outbox,       \* reminder_dispatch_outbox, one row per reminder
    notices,      \* the messages queued under "reminder:<id>"
    willing,      \* whether preferences, consent and suppressions allow one
    dispatches,   \* the background jobs that are queued
    reminding     \* what each worker has read

planVars == <<carVersion, plans>>
sendVars == <<outbox, notices, dispatches>>
reminderVars == <<carVersion, plans, reminders, outbox, notices, willing, dispatches, reminding>>

-----------------------------------------------------------------------------
Reminder == Rule \X (1..MaxSchedule)
NoPlan == [schedule |-> 0]
NoReminder == [status |-> "NONE"]
NoOutbox == [status |-> "NONE"]

PlanRow == [schedule: 1..MaxSchedule, source: 1..MaxCarVersion]
ReminderRow ==
    [status: {"SCHEDULED", "QUEUED", "SENT", "DELIVERED", "FAILED", "SUPPRESSED", "CANCELLED"},
     due: BOOLEAN, moved: BOOLEAN]
OutboxRow == [status: {"PENDING", "PROCESSING", "SENT", "FAILED", "DEAD_LETTER"},
              attempts: 0..MaxDispatches]
ReminderTask ==
    [step: {"IDLE"}]
    \cup [step: {"PLANNING"}, source: 1..MaxCarVersion, left: SUBSET Rule]
    \cup [step: {"PLANNED"}, source: 1..MaxCarVersion, left: SUBSET Rule,
          rule: Rule, seen: PlanRow \cup {NoPlan}]
    \cup [step: {"SCANNED"}, left: SUBSET Reminder]
    \cup [step: {"JUDGED"}, left: SUBSET Reminder, of: Reminder, allowed: BOOLEAN]
    \cup [step: {"QUEUED"}, left: SUBSET Reminder, of: Reminder]
    \cup [step: {"CLAIMED"}, of: Reminder, moved: BOOLEAN]
    \cup [step: {"HANDED", "REFUSED"}, of: Reminder]
    \cup [step: {"RECONCILING"}, left: SUBSET Reminder]

ReminderTypeOK ==
    /\ carVersion \in 1..MaxCarVersion
    /\ plans \in [Rule -> PlanRow \cup {NoPlan}]
    /\ reminders \in [Reminder -> ReminderRow \cup {NoReminder}]
    /\ outbox \in [Reminder -> OutboxRow \cup {NoOutbox}]
    /\ notices \in [Reminder -> [status: {"NONE", "QUEUED", "DELIVERED", "READ"}, moved: BOOLEAN]]
    /\ willing \in BOOLEAN
    /\ dispatches \subseteq Reminder
    /\ reminding \in [Reminding -> ReminderTask]

ReminderInit ==
    /\ carVersion = 1
    /\ plans = [r \in Rule |-> NoPlan]
    /\ reminders = [i \in Reminder |-> NoReminder]
    /\ outbox = [i \in Reminder |-> NoOutbox]
    /\ notices = [i \in Reminder |-> [status |-> "NONE", moved |-> FALSE]]
    /\ willing \in BOOLEAN
    /\ dispatches = {}
    /\ reminding = [w \in Reminding |-> [step |-> "IDLE"]]

-----------------------------------------------------------------------------
Minds(w, t) == reminding' = [reminding EXCEPT ![w] = t]
Rests(w) == Minds(w, [step |-> "IDLE"])
DoesNow(w, step) == reminding[w].step = step
ReminderIs(i, status) == reminders' = [reminders EXCEPT ![i].status = status]

(* updateVehicleDetails, and the registration's updates of the vehicle.     *)
CorrectVehicle ==
    /\ carVersion < MaxCarVersion
    /\ carVersion' = carVersion + 1
    /\ UNCHANGED <<plans, reminders, sendVars, willing, reminding>>

(* materializeVehicle reads the vehicle once, whatever happens to it while  *)
(* it goes through the rules.                                              *)
Materialize(w) ==
    /\ DoesNow(w, "IDLE")
    /\ Minds(w, [step |-> "PLANNING", source |-> carVersion, left |-> Rule])
    /\ UNCHANGED <<planVars, reminders, sendVars, willing>>

(* A rule whose selectors or base date do not fit the vehicle is passed     *)
(* over, whatever plan it gave before.                                     *)
PassRule(w, r) ==
    /\ DoesNow(w, "PLANNING") /\ r \in reminding[w].left
    /\ Minds(w, [reminding[w] EXCEPT !.left = @ \ {r}])
    /\ UNCHANGED <<planVars, reminders, sendVars, willing>>

ReadPlan(w, r) ==
    /\ DoesNow(w, "PLANNING") /\ r \in reminding[w].left
    /\ Minds(w, [step |-> "PLANNED", source |-> reminding[w].source,
                left |-> reminding[w].left \ {r}, rule |-> r, seen |-> plans[r]])
    /\ UNCHANGED <<planVars, reminders, sendVars, willing>>

Changed(t) == t.seen = NoPlan \/ t.seen.source # t.source

(* The schedules a changed plan replaces: those of its reminders that are   *)
(* SCHEDULED when the row of the plan is locked, not when it was read.      *)
Superseded(t) ==
    IF Changed(t) /\ t.seen # NoPlan
    THEN {i \in Reminder : i[1] = t.rule /\ reminders[i].status = "SCHEDULED"}
    ELSE {}

(* The plan is written with what was read, and the reminder of its schedule *)
(* is inserted unless its key exists.  A second first plan of a rule breaks *)
(* the unique index and ends the materialization.                          *)
WritePlan(w) ==
    /\ DoesNow(w, "PLANNED")
    /\ LET t == reminding[w]
           next == IF Changed(t) THEN t.seen.schedule + 1 ELSE t.seen.schedule
           i == <<t.rule, next>>
       IN  /\ next <= MaxSchedule
           /\ IF t.seen = NoPlan /\ plans[t.rule] # NoPlan
              THEN Rests(w) /\ UNCHANGED <<plans, reminders>>
              ELSE /\ Minds(w, [step |-> "PLANNING", source |-> t.source, left |-> t.left])
                   /\ plans' = [plans EXCEPT ![t.rule] = [schedule |-> next, source |-> t.source]]
                   /\ \E dated, due \in BOOLEAN :
                        /\ t.rule \notin ByKilometres => dated
                        /\ reminders' =
                             [j \in Reminder |->
                                IF j \in Superseded(t)
                                THEN [reminders[j] EXCEPT !.status = "CANCELLED"]
                                ELSE IF j = i /\ dated /\ reminders[i] = NoReminder
                                     THEN [status |-> "SCHEDULED", due |-> due, moved |-> FALSE]
                                     ELSE reminders[j]]
    /\ UNCHANGED <<carVersion, sendVars, willing>>

EndPlanning(w) ==
    /\ DoesNow(w, "PLANNING") /\ reminding[w].left = {}
    /\ Rests(w)
    /\ UNCHANGED <<planVars, reminders, sendVars, willing>>

-----------------------------------------------------------------------------
DueComes(i) ==
    /\ reminders[i].status = "SCHEDULED" /\ ~reminders[i].due
    /\ reminders' = [reminders EXCEPT ![i].due = TRUE]
    /\ UNCHANGED <<planVars, sendVars, willing, reminding>>

(* updatePreferences, recordConsent and the suppressions of messaging.      *)
ChangeMind ==
    /\ willing' = ~willing
    /\ UNCHANGED <<planVars, reminders, sendVars, reminding>>

(* reschedule: one statement, conditional on the version the client saw and *)
(* on the status.  It leaves the outbox and a queued job alone.             *)
Reschedule(i) ==
    /\ reminders[i].status \in {"SCHEDULED", "FAILED", "SUPPRESSED"}
    /\ \E due \in BOOLEAN :
         reminders' = [reminders EXCEPT ![i] = [status |-> "SCHEDULED", due |-> due, moved |-> TRUE]]
    /\ UNCHANGED <<planVars, sendVars, willing, reminding>>

(* queueDue: the due reminders are read, and each is judged by the          *)
(* customer's choice before a transaction of its own settles it.            *)
ScanDue(w) ==
    /\ DoesNow(w, "IDLE")
    /\ LET found == {i \in Reminder : reminders[i].status = "SCHEDULED" /\ reminders[i].due}
       IN  found # {} /\ Minds(w, [step |-> "SCANNED", left |-> found])
    /\ UNCHANGED <<planVars, reminders, sendVars, willing>>

deliveryPolicy(w, i) ==
    /\ DoesNow(w, "SCANNED") /\ i \in reminding[w].left
    /\ Minds(w, [step |-> "JUDGED", left |-> reminding[w].left \ {i}, of |-> i, allowed |-> willing])
    /\ UNCHANGED <<planVars, reminders, sendVars, willing>>

(* The reminder is queued with an outbox row, or the row it has from before *)
(* is left as it is, and then no job follows.                              *)
QueueReminder(w) ==
    /\ DoesNow(w, "JUDGED")
    /\ LET t == reminding[w]
           onward == [step |-> "SCANNED", left |-> t.left]
       IN  \/ /\ reminders[t.of].status # "SCHEDULED"
              /\ Minds(w, onward) /\ UNCHANGED <<reminders, outbox>>
           \/ /\ reminders[t.of].status = "SCHEDULED" /\ ~t.allowed
              /\ ReminderIs(t.of, "SUPPRESSED")
              /\ Minds(w, onward) /\ UNCHANGED outbox
           \/ /\ reminders[t.of].status = "SCHEDULED" /\ t.allowed
              /\ ReminderIs(t.of, "QUEUED")
              /\ IF outbox[t.of] = NoOutbox
                 THEN /\ outbox' = [outbox EXCEPT ![t.of] = [status |-> "PENDING", attempts |-> 0]]
                      /\ Minds(w, [step |-> "QUEUED", left |-> t.left, of |-> t.of])
                 ELSE Minds(w, onward) /\ UNCHANGED outbox
    /\ UNCHANGED <<planVars, notices, dispatches, willing>>

(* enqueueDispatch: Redis takes the job, or refuses it and the row notes    *)
(* the error.                                                              *)
enqueueDispatch(w) ==
    /\ DoesNow(w, "QUEUED")
    /\ \/ dispatches' = dispatches \cup {reminding[w].of}
       \/ UNCHANGED dispatches
    /\ Minds(w, [step |-> "SCANNED", left |-> reminding[w].left])
    /\ UNCHANGED <<planVars, reminders, outbox, notices, willing>>

EndScan(w) ==
    /\ DoesNow(w, "SCANNED") /\ reminding[w].left = {}
    /\ Rests(w)
    /\ UNCHANGED <<planVars, reminders, sendVars, willing>>

-----------------------------------------------------------------------------
(* A worker that takes a row another one works on.                          *)
FaultyDispatchable(i) == outbox[i].status \in {"PENDING", "FAILED", "PROCESSING"}

(* processDispatch claims the row by a conditional update.  A row that can  *)
(* be claimed has attempts left, since the last one makes a dead letter.    *)
Dispatchable(i) == outbox[i].status \in {"PENDING", "FAILED"}

ClaimDispatch(w, i) ==
    /\ DoesNow(w, "IDLE") /\ i \in dispatches
    /\ Dispatchable(i) /\ outbox[i].attempts < MaxDispatches
    /\ outbox' = [outbox EXCEPT ![i] = [status |-> "PROCESSING", attempts |-> @.attempts + 1]]
    /\ Minds(w, [step |-> "CLAIMED", of |-> i, moved |-> reminders[i].moved])
    /\ UNCHANGED <<planVars, reminders, notices, dispatches, willing>>

SkipDispatch(w, i) ==
    /\ DoesNow(w, "IDLE") /\ i \in dispatches
    /\ ~Dispatchable(i)
    /\ dispatches' = dispatches \ {i}
    /\ UNCHANGED <<planVars, reminders, outbox, notices, willing, reminding>>

(* queueAutomatedReminder: a message under the reminder's key, or the one   *)
(* there is if it says the same date; consent, an open conversation and its *)
(* owner are demanded by messaging and may be missing.                      *)
HandOver(w) ==
    /\ DoesNow(w, "CLAIMED")
    /\ LET t == reminding[w]
           fresh == notices[t.of].status = "NONE"
       IN  \/ /\ fresh \/ notices[t.of].moved = t.moved
              /\ notices' = IF fresh THEN [notices EXCEPT ![t.of] = [status |-> "QUEUED", moved |-> t.moved]]
                                     ELSE notices
              /\ Minds(w, [step |-> "HANDED", of |-> t.of])
           \/ Minds(w, [step |-> "REFUSED", of |-> t.of]) /\ UNCHANGED notices
    /\ UNCHANGED <<planVars, reminders, outbox, dispatches, willing>>

(* Both rows by their id, whatever they are by then.                        *)
DispatchSent(w) ==
    /\ DoesNow(w, "HANDED")
    /\ LET i == reminding[w].of
       IN  /\ outbox' = [outbox EXCEPT ![i].status = "SENT"]
           /\ ReminderIs(i, "SENT")
           /\ dispatches' = dispatches \ {i}
    /\ Rests(w)
    /\ UNCHANGED <<planVars, notices, willing>>

(* A refusal, or a message that was queued but could not be recorded: the   *)
(* job is tried again until its attempts are used up.                       *)
DispatchFailed(w) ==
    /\ DoesNow(w, "HANDED") \/ DoesNow(w, "REFUSED")
    /\ LET i == reminding[w].of
           over == outbox[i].attempts >= MaxDispatches
       IN  /\ outbox' = [outbox EXCEPT ![i].status = IF over THEN "DEAD_LETTER" ELSE "FAILED"]
           /\ ReminderIs(i, "FAILED")
           /\ dispatches' = IF over THEN dispatches \ {i} ELSE dispatches
    /\ Rests(w)
    /\ UNCHANGED <<planVars, notices, willing>>

(* A request or a worker ends before its next statement; a job stays.       *)
ReminderCrash(w) ==
    /\ ~DoesNow(w, "IDLE")
    /\ Rests(w)
    /\ UNCHANGED <<planVars, reminders, sendVars, willing>>

NoticeArrives(i) ==
    /\ notices[i].status \in {"QUEUED", "DELIVERED"}
    /\ notices' = [notices EXCEPT ![i].status = IF @ = "QUEUED" THEN "DELIVERED" ELSE "READ"]
    /\ UNCHANGED <<planVars, reminders, outbox, dispatches, willing, reminding>>

(* reconcileDeliveryStatuses: reads the pairs, then writes each by its id.  *)
ReadArrivals(w) ==
    /\ DoesNow(w, "IDLE")
    /\ LET found == {i \in Reminder : /\ reminders[i].status = "SENT" /\ outbox[i].status = "SENT"
                                      /\ notices[i].status = "DELIVERED"}
       IN  found # {} /\ Minds(w, [step |-> "RECONCILING", left |-> found])
    /\ UNCHANGED <<planVars, reminders, sendVars, willing>>

WriteArrival(w, i) ==
    /\ DoesNow(w, "RECONCILING") /\ i \in reminding[w].left
    /\ ReminderIs(i, "DELIVERED")
    /\ IF reminding[w].left = {i} THEN Rests(w)
       ELSE Minds(w, [reminding[w] EXCEPT !.left = @ \ {i}])
    /\ UNCHANGED <<planVars, sendVars, willing>>

-----------------------------------------------------------------------------
Planning(w) ==
    \/ Materialize(w) \/ WritePlan(w) \/ EndPlanning(w)
    \/ \E r \in Rule : PassRule(w, r) \/ ReadPlan(w, r)

Queueing(w) ==
    \/ ScanDue(w) \/ QueueReminder(w) \/ enqueueDispatch(w) \/ EndScan(w)
    \/ \E i \in Reminder : deliveryPolicy(w, i)

Dispatching(w) ==
    \/ HandOver(w) \/ DispatchSent(w) \/ DispatchFailed(w) \/ ReadArrivals(w)
    \/ \E i \in Reminder : ClaimDispatch(w, i) \/ SkipDispatch(w, i) \/ WriteArrival(w, i)

ReminderNext ==
    \/ CorrectVehicle \/ ChangeMind
    \/ \E i \in Reminder : DueComes(i) \/ Reschedule(i) \/ NoticeArrives(i)
    \/ \E w \in Reminding : Planning(w) \/ Queueing(w) \/ Dispatching(w) \/ ReminderCrash(w)

ReminderSpec == ReminderInit /\ [][ReminderNext]_reminderVars

-----------------------------------------------------------------------------
(* A reminder that was handed over stays so: no other worker, retry,        *)
(* rescheduling or materialization takes it back to be sent again.          *)
HandedOver(i) == reminders[i].status \in {"SENT", "DELIVERED"}
SentStands == [][\A i \in Reminder : HandedOver(i) => HandedOver(i)']_reminderVars
=============================================================================
