----------------------------- MODULE Messaging -----------------------------
(***************************************************************************)
(* Outbound WhatsApp messages, apps/api/src/messaging/messaging.service.ts: *)
(* a message and its outbox row, the dispatch that calls the provider, the *)
(* retries a queue or a person starts, and the status webhooks that come   *)
(* back.                                                                   *)
(*                                                                         *)
(* A worker is a request handler or a queue worker with a database         *)
(* connection: every statement or transaction of its own is a step, what   *)
(* it read is kept in its task, and it may die between any two steps.      *)
(* The provider is external: it accepts a send or not, its answer may be   *)
(* lost, and it reports on what it accepted whenever it likes.             *)
(*                                                                         *)
(* Workers are as slow as they please, so a lease, a retry delay or the    *)
(* window after which a claim counts as abandoned may have run out         *)
(* whenever it is looked at.  Of the clock only occurredAt is left: our    *)
(* rows are stamped Now, in the order they are created, and the provider,  *)
(* whose stamps are whole seconds of a clock of its own, may stamp earlier *)
(* or later than that.                                                     *)
(***************************************************************************)
EXTENDS Naturals, Sequences

CONSTANTS
    Message,         \* messages to customers
    Worker,          \* request handlers and queue workers
    Event,           \* webhook events, by the provider's event id
    MaxAttempts,     \* outboundMaxAttempts of the configuration
    Reported,        \* the statuses the provider reports
    Stamp,           \* the provider's stamps
    MaxClaims        \* bound: claims of one event

ASSUME MessagingAssumption ==
    /\ MaxAttempts \in Nat \ {0} /\ MaxClaims \in Nat /\ Stamp \subseteq Nat
    /\ Reported \subseteq {"SENT", "DELIVERED", "READ", "FAILED"}

VARIABLES
    message,  \* the row of messages
    history,  \* message_status_history, in the order the rows were created
    outbox,   \* message_outbound_outbox
    webhook,  \* webhook_events
    job,      \* messaging.outbound.process jobs in the queue
    task,     \* what each worker is doing
    accepted, \* the provider: how many sends of a message it accepted
    cause     \* what happened to a message that explains a second send

vars == <<message, history, outbox, webhook, job, task, accepted, cause>>
db == <<message, history, outbox, webhook>>

-----------------------------------------------------------------------------
Now == 1
DeliveryStatus == {"QUEUED", "SENDING", "SENT", "DELIVERED", "READ", "FAILED"}
OutboxStatus == {"PENDING", "PROCESSING", "SENT", "FAILED", "DEAD_LETTER"}
WebhookStatus == {"RECEIVED", "PROCESSING", "PROCESSED", "FAILED", "DEAD_LETTER", "DUPLICATE"}
(* The provider's id of a message is the number of the send it accepted, 0  *)
(* is null.  by is the webhook event a history row comes from, {} for ours. *)
MessageRow == [status: DeliveryStatus \cup {"NONE"}, sent: Nat, media: BOOLEAN]
HistoryRow == [status: DeliveryStatus, at: Nat, by: SUBSET Event]
OutboxRow == [status: OutboxStatus \cup {"NONE"}, attempts: Nat]
WebhookRow == [status: WebhookStatus, attempts: Nat, message: Message, sent: Nat,
               report: Reported, at: Nat]
NoWebhook == [status |-> "NONE"]
Job == [message: Message, attempts: Nat]

DispatchStep == {"DISPATCH", "ABANDONED"}
SendStep == {"CLAIMED", "SENDING", "ANSWERED", "ERRED"}
EventStep == {"EVENT", "PROJECTED", "RECORDED", "REPEATED", "BROKEN"}
Task == [step: {"IDLE"}]
        \cup [step: {"RETRY"}, message: Message]
        \cup [step: DispatchStep \cup SendStep, message: Message, attempts: Nat,
              sent: Nat, jobs: SUBSET Job]
        \cup [step: EventStep, event: Event, attempts: Nat, status: DeliveryStatus, seen: Nat]
Idle == [step |-> "IDLE"]

TypeOK ==
    /\ message \in [Message -> MessageRow]
    /\ history \in [Message -> Seq(HistoryRow)]
    /\ outbox \in [Message -> OutboxRow]
    /\ webhook \in [Event -> WebhookRow \cup {NoWebhook}]
    /\ job \subseteq Job
    /\ task \in [Worker -> Task]
    /\ accepted \in [Message -> Nat]
    /\ cause \in [Message -> SUBSET {"PERSON", "UNKNOWN", "CRASH", "OVERLAP"}]

Init ==
    /\ message = [m \in Message |-> [status |-> "NONE", sent |-> 0, media |-> FALSE]]
    /\ history = [m \in Message |-> <<>>]
    /\ outbox = [m \in Message |-> [status |-> "NONE", attempts |-> 0]]
    /\ webhook = [e \in Event |-> NoWebhook]
    /\ job = {}
    /\ task = [w \in Worker |-> Idle]
    /\ accepted = [m \in Message |-> 0]
    /\ cause = [m \in Message |-> {}]

-----------------------------------------------------------------------------
(* What the history of a message says, its rows put in the order they       *)
(* occurred: a failure takes the place of all before it, a first row after  *)
(* a failure the place of the failure, and any other row only raises.       *)
Rank == [QUEUED |-> 0, SENDING |-> 1, SENT |-> 2, DELIVERED |-> 3, READ |-> 4, FAILED |-> 5]

Before(h, i, j) == h[i].at < h[j].at \/ (h[i].at = h[j].at /\ i < j)

Projection(h) ==
    LET failures == {i \in DOMAIN h : h[i].status = "FAILED"}
        after == {i \in DOMAIN h \ failures : \A f \in failures : Before(h, f, i)}
    IN  IF after # {}
        THEN h[CHOOSE i \in after : \A j \in after : Rank[h[j].status] <= Rank[h[i].status]].status
        ELSE IF failures # {} THEN "FAILED" ELSE "QUEUED"

Row(status, at, by) == [status |-> status, at |-> at, by |-> by]
Recorded(e) == \E m \in Message : \E i \in DOMAIN history[m] : e \in history[m][i].by

(* One transaction writes a message's status and the history that shows it. *)
Show(m, status, sent) ==
    /\ message' = [message EXCEPT ![m].status = status, ![m].sent = sent]
    /\ history' = [history EXCEPT ![m] = Append(@, Row(status, Now, {}))]

SetTask(w, t) == task' = [task EXCEPT ![w] = t]
Dispatching(m, jobs) ==
    [step |-> "DISPATCH", message |-> m, attempts |-> 0, sent |-> 0, jobs |-> jobs]
At(w, step) == task[w].step = step
Queued == [status |-> "PENDING", attempts |-> 0]

-----------------------------------------------------------------------------
(* Composing.  A repeat with the same idempotency key finds the message.    *)
Compose(m, media) ==
    /\ message[m].status = "NONE"
    /\ message' = [message EXCEPT ![m] = [status |-> "QUEUED", sent |-> 0, media |-> media]]
    /\ history' = [history EXCEPT ![m] = Append(@, Row("QUEUED", Now, {}))]

SendMessage(w, m) ==
    /\ At(w, "IDLE")
    /\ Compose(m, FALSE)
    /\ outbox' = [outbox EXCEPT ![m] = Queued]
    /\ SetTask(w, Dispatching(m, {}))
    /\ UNCHANGED <<webhook, job, accepted, cause>>

(* A reminder is queued and left to others to dispatch. *)
QueueAutomatedReminder(m) ==
    /\ Compose(m, FALSE)
    /\ outbox' = [outbox EXCEPT ![m] = Queued]
    /\ UNCHANGED <<webhook, job, task, accepted, cause>>

BeginMediaUpload(m) ==
    /\ Compose(m, TRUE)
    /\ UNCHANGED <<outbox, webhook, job, task, accepted, cause>>

(* A bound on what people do: nobody presses anything for a message after a *)
(* retry of it was carried out.                                             *)
Untouched(m) == "PERSON" \notin cause[m]

(* A second completion finds the outbox row and dispatches again. *)
CompleteMediaUpload(w, m) ==
    /\ At(w, "IDLE")
    /\ message[m].media /\ Untouched(m)
    /\ outbox' = [outbox EXCEPT ![m] = IF @.status = "NONE" THEN Queued ELSE @]
    /\ SetTask(w, Dispatching(m, {}))
    /\ UNCHANGED <<message, history, webhook, job, accepted, cause>>

(* A person retries: the row is read without a lock and written whatever it *)
(* has become since.                                                        *)
Retry(w, m) ==
    /\ At(w, "IDLE")
    /\ outbox[m].status \in {"FAILED", "DEAD_LETTER"}
    /\ Untouched(m)
    /\ SetTask(w, [step |-> "RETRY", message |-> m])
    /\ UNCHANGED <<db, job, accepted, cause>>

Requeue(w) ==
    /\ At(w, "RETRY")
    /\ LET m == task[w].message IN
       /\ outbox' = [outbox EXCEPT ![m].status = "PENDING"]
       /\ cause' = [cause EXCEPT ![m] = @ \cup {"PERSON"}]
       /\ SetTask(w, Dispatching(m, {}))
    /\ UNCHANGED <<message, history, webhook, job, accepted>>

(* The queue hands a job to one worker, and keeps it until that worker is   *)
(* done, so that a stalled one runs again.                                  *)
RunJob(w, j) ==
    /\ At(w, "IDLE")
    /\ \A v \in Worker : task[v].step \in DispatchStep \cup SendStep => j \notin task[v].jobs
    /\ SetTask(w, Dispatching(j.message, {j}))
    /\ UNCHANGED <<db, job, accepted, cause>>

-----------------------------------------------------------------------------
(* dispatchMessage.  What it reads first matters only when it finds a claim *)
(* older than the window: that one is taken for abandoned.                  *)
Finished(w) ==
    /\ SetTask(w, Idle)
    /\ job' = job \ task[w].jobs

FindsAbandoned(w) ==
    /\ At(w, "DISPATCH")
    /\ outbox[task[w].message].status = "PROCESSING"
    /\ SetTask(w, [task[w] EXCEPT !.step = "ABANDONED"])
    /\ UNCHANGED <<db, job, accepted, cause>>

(* Faulty: an abandoned claim is put back to be tried again. *)
RetryAbandoned(w) ==
    /\ At(w, "ABANDONED")
    /\ Show(task[w].message, "FAILED", message[task[w].message].sent)
    /\ outbox' = [outbox EXCEPT ![task[w].message].status =
                     IF @ = "PROCESSING" THEN "FAILED" ELSE @]
    /\ Finished(w)
    /\ UNCHANGED <<webhook, accepted, cause>>

DeadLetter(w) ==
    /\ At(w, "ABANDONED")
    /\ LET m == task[w].message IN
       /\ Show(m, "FAILED", message[m].sent)
       /\ outbox' = [outbox EXCEPT ![m] =
                        IF @.status = "PROCESSING" THEN [@ EXCEPT !.status = "DEAD_LETTER"] ELSE @]
    /\ Finished(w)
    /\ UNCHANGED <<webhook, accepted, cause>>

(* Faulty: a claim does not keep others from claiming. *)
ClaimableAgain(m) == outbox[m].status \in {"PENDING", "FAILED", "PROCESSING"}

Claimable(m) == outbox[m].status \in {"PENDING", "FAILED"}

Claim(w) ==
    /\ At(w, "DISPATCH")
    /\ LET m == task[w].message IN
       /\ Claimable(m)
       /\ outbox' = [outbox EXCEPT ![m].status = "PROCESSING", ![m].attempts = @ + 1]
       /\ SetTask(w, [task[w] EXCEPT !.step = "CLAIMED", !.attempts = outbox[m].attempts + 1])
    /\ UNCHANGED <<message, history, webhook, job, accepted, cause>>

(* Somebody else has it, it is over, or its delay is not. *)
NothingToClaim(w) ==
    /\ At(w, "DISPATCH")
    /\ outbox[task[w].message].status # "PENDING"
    /\ Finished(w)
    /\ UNCHANGED <<db, accepted, cause>>

MarkSending(w) ==
    /\ At(w, "CLAIMED")
    /\ message' = [message EXCEPT ![task[w].message].status = "SENDING"]
    /\ SetTask(w, [task[w] EXCEPT !.step = "SENDING"])
    /\ UNCHANGED <<history, outbox, webhook, job, accepted, cause>>

(* The connection is not active, no permit is free, or the provider says no. *)
Rejected(w) ==
    /\ task[w].step \in {"CLAIMED", "SENDING"}
    /\ SetTask(w, [task[w] EXCEPT !.step = "ERRED"])
    /\ UNCHANGED <<db, job, accepted, cause>>

Accept(m) == accepted' = [accepted EXCEPT ![m] = @ + 1]

Answered(w) ==
    /\ At(w, "SENDING")
    /\ Accept(task[w].message)
    /\ SetTask(w, [task[w] EXCEPT !.step = "ANSWERED", !.sent = accepted[task[w].message] + 1])
    /\ UNCHANGED <<db, job, cause>>

(* The provider accepts and its answer does not arrive. *)
AnswerLost(w) ==
    /\ At(w, "SENDING")
    /\ Accept(task[w].message)
    /\ cause' = [cause EXCEPT ![task[w].message] = @ \cup {"UNKNOWN"}]
    /\ SetTask(w, [task[w] EXCEPT !.step = "ERRED"])
    /\ UNCHANGED <<db, job>>

RecordSent(w) ==
    /\ At(w, "ANSWERED")
    /\ LET m == task[w].message IN
       /\ Show(m, "SENT", task[w].sent)
       /\ outbox' = [outbox EXCEPT ![m].status = "SENT"]
    /\ Finished(w)
    /\ UNCHANGED <<webhook, accepted, cause>>

(* The transaction that records the send fails; its catch is the send's. *)
RecordingFails(w) ==
    /\ At(w, "ANSWERED")
    /\ cause' = [cause EXCEPT ![task[w].message] = @ \cup {"UNKNOWN"}]
    /\ SetTask(w, [task[w] EXCEPT !.step = "ERRED", !.sent = 0])
    /\ UNCHANGED <<db, job, accepted>>

Terminal(w) == task[w].attempts >= MaxAttempts

(* The failure is recorded and, if tries are left, a job is queued for the  *)
(* next; without a queue, or when adding fails or the worker dies first,    *)
(* there is no job.                                                         *)
RecordFailure(w) ==
    /\ At(w, "ERRED")
    /\ LET m == task[w].message
           next == [message |-> m, attempts |-> task[w].attempts]
       IN  /\ Show(m, "FAILED", message[m].sent)
           /\ outbox' = [outbox EXCEPT ![m] =
                [status |-> IF Terminal(w) THEN "DEAD_LETTER" ELSE "FAILED",
                 attempts |-> task[w].attempts]]
           /\ \E added \in SUBSET {next} :
                 /\ Terminal(w) => added = {}
                 /\ job' = (job \ task[w].jobs) \cup added
    /\ SetTask(w, Idle)
    /\ UNCHANGED <<webhook, accepted, cause>>

-----------------------------------------------------------------------------
(* Webhooks.  A repeated delivery finds the row and processes it again.     *)
ReceiveWebhook(e) ==
    /\ webhook[e].status = "NONE"
    /\ \E m \in Message, report \in Reported, at \in Stamp :
       \E sent \in 1..accepted[m] :
          webhook' = [webhook EXCEPT ![e] =
              [status |-> "RECEIVED", attempts |-> 0,
               message |-> m, sent |-> sent, report |-> report, at |-> at]]
    /\ UNCHANGED <<message, history, outbox, job, task, accepted, cause>>

(* An event in processing is claimed again when its lease has run out. *)
ClaimEvent(w, e) ==
    /\ At(w, "IDLE")
    /\ webhook[e].status \in {"RECEIVED", "FAILED", "PROCESSING"}
    /\ webhook[e].attempts < MaxClaims
    /\ webhook' = [webhook EXCEPT ![e].status = "PROCESSING", ![e].attempts = @ + 1]
    /\ SetTask(w, [step |-> "EVENT", event |-> e, attempts |-> webhook[e].attempts + 1,
                   status |-> "QUEUED", seen |-> 0])
    /\ UNCHANGED <<message, history, outbox, job, accepted, cause>>

Known(e) == message[webhook[e].message].sent = webhook[e].sent

(* Faulty: an event that is recorded is recorded again. *)
ProcessStatusAgain(w) ==
    /\ At(w, "EVENT")
    /\ Known(task[w].event)
    /\ LET r == webhook[task[w].event]
           h == history[r.message]
       IN  SetTask(w, [task[w] EXCEPT !.step = "PROJECTED", !.seen = Len(h),
                         !.status = Projection(Append(h, Row(r.report, r.at, {task[w].event})))])
    /\ UNCHANGED <<db, job, accepted, cause>>

(* The event's row is inserted, which waits for another that inserts it and *)
(* fails if that one commits; then the history is read and projected.       *)
ProcessStatus(w) ==
    /\ At(w, "EVENT")
    /\ LET e == task[w].event
           r == webhook[e]
           h == history[r.message]
       IN  /\ Known(e) /\ ~Recorded(e)
           /\ \A v \in Worker : task[v].step = "PROJECTED" => task[v].event # e
           /\ SetTask(w, [task[w] EXCEPT !.step = "PROJECTED", !.seen = Len(h),
                              !.status = Projection(Append(h, Row(r.report, r.at, {e})))])
    /\ UNCHANGED <<db, job, accepted, cause>>

AlreadyRecorded(w) ==
    /\ At(w, "EVENT")
    /\ Known(task[w].event) /\ Recorded(task[w].event)
    /\ SetTask(w, [task[w] EXCEPT !.step = "REPEATED"])
    /\ UNCHANGED <<db, job, accepted, cause>>

(* No message has the provider's id yet, or the transaction fails. *)
EventFails(w) ==
    /\ \/ At(w, "EVENT") /\ ~Known(task[w].event)
       \/ At(w, "PROJECTED")
    /\ SetTask(w, [task[w] EXCEPT !.step = "BROKEN"])
    /\ UNCHANGED <<db, job, accepted, cause>>

(* Faulty: the status reported is shown, not what the history says. *)
CommitReport(w) ==
    /\ At(w, "PROJECTED")
    /\ LET e == task[w].event
           m == webhook[e].message
           report == webhook[e].report
       IN  /\ history' = [history EXCEPT ![m] = Append(@, Row(report, webhook[e].at, {e}))]
           /\ message' = [message EXCEPT ![m].status = report]
    /\ SetTask(w, [task[w] EXCEPT !.step = "RECORDED"])
    /\ UNCHANGED <<outbox, webhook, job, accepted, cause>>

CommitStatus(w) ==
    /\ At(w, "PROJECTED")
    /\ LET e == task[w].event
           m == webhook[e].message
       IN  /\ history' = [history EXCEPT ![m] = Append(@, Row(webhook[e].report, webhook[e].at, {e}))]
           /\ message' = [message EXCEPT ![m].status = task[w].status]
           /\ cause' = [cause EXCEPT ![m] =
                            IF Len(history[m]) # task[w].seen THEN @ \cup {"OVERLAP"} ELSE @]
    /\ SetTask(w, [task[w] EXCEPT !.step = "RECORDED"])
    /\ UNCHANGED <<outbox, webhook, job, accepted>>

(* The verdict is written only by the claim that is still the last one. *)
StillMine(w) == webhook[task[w].event].attempts = task[w].attempts

Verdict(w) ==
    CASE At(w, "RECORDED") -> "PROCESSED"
      [] At(w, "REPEATED") -> "DUPLICATE"
      [] OTHER -> IF task[w].attempts >= MaxAttempts THEN "DEAD_LETTER" ELSE "FAILED"

FinishEvent(w) ==
    /\ task[w].step \in {"RECORDED", "REPEATED", "BROKEN"}
    /\ LET e == task[w].event IN
       webhook' = IF StillMine(w) THEN [webhook EXCEPT ![e].status = Verdict(w)] ELSE webhook
    /\ SetTask(w, Idle)
    /\ UNCHANGED <<message, history, outbox, job, accepted, cause>>

-----------------------------------------------------------------------------
(* A worker dies: its open transaction is rolled back, its job stays.  A    *)
(* bound: no second worker dies in the middle of sending the same message.  *)
Crash(w) ==
    /\ ~At(w, "IDLE")
    /\ IF task[w].step \in SendStep
       THEN /\ "CRASH" \notin cause[task[w].message]
            /\ cause' = [cause EXCEPT ![task[w].message] = @ \cup {"CRASH"}]
       ELSE cause' = cause
    /\ SetTask(w, Idle)
    /\ UNCHANGED <<db, job, accepted>>

Advance(w) ==
    \/ Requeue(w) \/ FindsAbandoned(w) \/ DeadLetter(w) \/ Claim(w) \/ NothingToClaim(w)
    \/ MarkSending(w) \/ Rejected(w) \/ Answered(w) \/ AnswerLost(w)
    \/ RecordSent(w) \/ RecordingFails(w) \/ RecordFailure(w)
    \/ ProcessStatus(w) \/ AlreadyRecorded(w) \/ EventFails(w) \/ CommitStatus(w)
    \/ FinishEvent(w)

Next ==
    \/ \E m \in Message : QueueAutomatedReminder(m) \/ BeginMediaUpload(m)
    \/ \E w \in Worker, m \in Message :
          SendMessage(w, m) \/ CompleteMediaUpload(w, m) \/ Retry(w, m)
    \/ \E w \in Worker : \E j \in job : RunJob(w, j)
    \/ \E w \in Worker, e \in Event : ClaimEvent(w, e)
    \/ \E e \in Event : ReceiveWebhook(e)
    \/ \E w \in Worker : Advance(w) \/ Crash(w)

Spec == Init /\ [][Next]_vars

-----------------------------------------------------------------------------
Sending(w, m) == task[w].step \in SendStep /\ task[w].message = m

(* Two workers are never sending one message at the same time, whatever jobs *)
(* run twice and workers die, unless a person asked for it to be sent again: *)
(* the claim, an UPDATE of a PENDING or FAILED row, is the only lock.        *)
SendersAlone ==
    \A m \in Message : \A v, w \in Worker :
        v # w /\ Sending(v, m) /\ Sending(w, m) => "PERSON" \in cause[m]

(* The provider has a message twice only when a person retried it or when    *)
(* an answer of the provider was lost or could not be recorded: an abandoned *)
(* claim is never sent again on its own, nor is a send that was recorded.    *)
SecondSendExplained ==
    \A m \in Message : accepted[m] > 1 => cause[m] \cap {"PERSON", "UNKNOWN"} # {}

(* No row of a message's history is stamped ahead of our clock. *)
Punctual(m) == \A i \in DOMAIN history[m] : history[m][i].at <= Now

(* "Current message status is a projection of this history": it is while     *)
(* the provider's stamps are not ahead of ours, as long as no two            *)
(* transactions that add to the history overlapped and no person retried.    *)
StatusIsProjection ==
    \A m \in Message :
        /\ message[m].status \notin {"NONE", "SENDING"}
        /\ cause[m] \cap {"PERSON", "OVERLAP"} = {}
        /\ Punctual(m)
        => message[m].status = Projection(history[m])

(* An event is in the history at most once however often it is delivered,    *)
(* claimed and begun, and it is there when the webhook row says it was       *)
(* processed or was a duplicate.                                             *)
EventsRecordedOnce ==
    /\ \A e \in Event : \A m, n \in Message : \A i \in DOMAIN history[m], j \in DOMAIN history[n] :
           e \in history[m][i].by /\ e \in history[n][j].by => m = n /\ i = j
    /\ \A e \in Event : webhook[e].status \in {"PROCESSED", "DUPLICATE"} => Recorded(e)

(* A verdict on an event stands: a worker whose claim was taken over while   *)
(* it was slow does not change it.                                           *)
Settled == {"PROCESSED", "DUPLICATE", "DEAD_LETTER"}
VerdictFinal ==
    [][\A e \in Event : webhook[e].status \in Settled => webhook'[e] = webhook[e]]_vars
=============================================================================
