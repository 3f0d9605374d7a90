-------------------------------- MODULE Calls --------------------------------
(***************************************************************************)
(* Telephony, apps/api/src/telephony/telephony.service.ts: calls dialled   *)
(* through the provider or the phone, the provider's events by webhook and *)
(* by reconciliation, outcomes and the exceptions of a supervisor, and     *)
(* recordings uploaded by hand.                                            *)
(*                                                                         *)
(* A handler reads without locks, calls the provider outside of any        *)
(* transaction, and writes later; between the two anything may happen, and *)
(* it may die.  Unique indexes are the only guard: of a webhook, a call    *)
(* event, an outcome, an exception, a receipt.                             *)
(*                                                                         *)
(* The provider is external: it delivers an event any number of times, in  *)
(* any order, and offers those it could not deliver to a reconciliation.   *)
(***************************************************************************)
EXTENDS Naturals, FiniteSets

CONSTANTS
    Call,        \* calls
    Inbound,     \* those the provider reports with the lead they belong to
    Event,       \* events of the provider
    EventOf,     \* what an event says: of which call, which status, when
    CallKey,     \* idempotency keys of startCall
    Upload,      \* idempotency keys of an upload, with its recording
    CallWorker   \* handlers

CallStatus == {"REQUESTED", "RINGING", "ANSWERED", "COMPLETED", "FAILED", "CANCELLED"}
Fact == [call: Call, status: CallStatus, at: Nat]
ASSUME CallsAssumption == Inbound \subseteq Call /\ EventOf \in [Event -> Fact]

VARIABLES
    calls,       \* calls, with the marks of their outcome and exception
    hooks,       \* integration_webhook_events
    applied,     \* call_events of the provider
    dialled,     \* external: calls the provider has placed
    offered,     \* external: events waiting for a reconciliation
    started,     \* receipts of startCall
    uploads,     \* call_recordings uploaded by hand
    consent,     \* whether the contact's consent to recordings stands
    raced,       \* calls written by a handler that had read an older state
    callTasks    \* what each handler is doing

callVars == <<calls, hooks, applied, dialled, offered, started, uploads, consent,
              raced, callTasks>>
callRows == <<calls, hooks, applied, dialled, offered, started, uploads, consent, raced>>

-----------------------------------------------------------------------------
NoCall == [status |-> "NONE"]
Requirement == {"NOT_REQUIRED", "REQUIRED", "RECORDED", "EXCEPTION"}
(* at: when the last event with a status occurred, 0 where there is none.   *)
CallRow == [status: CallStatus, requirement: Requirement, at: Nat,
            outcome: BOOLEAN, exception: BOOLEAN]
Asleep == [step |-> "IDLE"]
CallTask ==
    [step: {"IDLE"}]
    \cup [step: {"CHECKED", "DIALLED", "INSERTED"}, key: CallKey, call: Call]
    \cup [step: {"APPLYING"}, event: Event, hook: BOOLEAN, todo: SUBSET Event,
          seen: CallRow \cup {NoCall}]
    \cup [step: {"SYNCING"}, todo: SUBSET Event]
    \cup [step: {"OUTCOME", "EXCEPTION"}, call: Call, seen: CallRow]
    \cup [step: {"PREPARED", "VERIFIED"}, upload: Upload, call: Call]

CallTypeOK ==
    /\ calls \in [Call -> CallRow \cup {NoCall}]
    /\ hooks \in [Event -> {"NONE", "PROCESSED", "FAILED"}]
    /\ applied \subseteq Event /\ offered \subseteq Event
    /\ dialled \subseteq Call /\ raced \subseteq Call
    /\ started \in [CallKey -> BOOLEAN]
    /\ uploads \in [Upload -> {"NONE", "PENDING", "AVAILABLE"}]
    /\ consent \in BOOLEAN
    /\ callTasks \in [CallWorker -> CallTask]

CallInit ==
    /\ calls = [c \in Call |-> NoCall]
    /\ hooks = [e \in Event |-> "NONE"]
    /\ applied = {} /\ dialled = Inbound /\ offered = Event /\ raced = {}
    /\ started = [k \in CallKey |-> FALSE]
    /\ uploads = [u \in Upload |-> "NONE"]
    /\ consent = TRUE
    /\ callTasks = [w \in CallWorker |-> Asleep]

Goes(w, t) == callTasks' = [callTasks EXCEPT ![w] = t]
Works(w, step) == callTasks[w].step = step
Known(c) == calls[c] # NoCall
(* A call created now: its first event carries a status and the clock.      *)
NewCall(status, requirement, at) ==
    [status |-> status, requirement |-> requirement, at |-> at,
     outcome |-> requirement = "RECORDED", exception |-> FALSE]
Races(c, seen) == raced' = IF calls[c] = seen THEN raced ELSE raced \cup {c}

-----------------------------------------------------------------------------
(* startCall: the receipt, the provider, the call, the receipt again.  The  *)
(* receipt is not part of the transaction: a repeated request that comes    *)
(* before it is stored dials again.                                         *)
startCall(w, k, c) ==
    /\ Works(w, "IDLE") /\ ~started[k] /\ ~Known(c) /\ c \notin dialled
    /\ Goes(w, [step |-> "CHECKED", key |-> k, call |-> c])
    /\ UNCHANGED callRows
Dial(w) ==
    LET t == callTasks[w] IN
    /\ Works(w, "CHECKED") /\ t.call \notin dialled
    /\ dialled' = dialled \cup {t.call}
    /\ Goes(w, [t EXCEPT !.step = "DIALLED"])
    /\ UNCHANGED <<calls, hooks, applied, offered, started, uploads, consent, raced>>
(* A tel: link needs no provider.  at is the API's clock, 1 may be before   *)
(* or after the first event of the provider.                                *)
InsertCall(w) ==
    LET t == callTasks[w] IN
    /\ Works(w, "DIALLED") \/ (Works(w, "CHECKED") /\ t.call \notin dialled)
    /\ ~Known(t.call)
    /\ calls' = [calls EXCEPT ![t.call] = NewCall("REQUESTED", "NOT_REQUIRED", 1)]
    /\ Goes(w, [t EXCEPT !.step = "INSERTED"])
    /\ UNCHANGED <<hooks, applied, dialled, offered, started, uploads, consent, raced>>
storeCommandReceipt(w) ==
    /\ Works(w, "INSERTED")
    /\ started' = [started EXCEPT ![callTasks[w].key] = TRUE]
    /\ Goes(w, Asleep)
    /\ UNCHANGED <<calls, hooks, applied, dialled, offered, uploads, consent, raced>>

-----------------------------------------------------------------------------
(* applyProviderEvent reads whether the event was applied, the call and its *)
(* latest event, for a webhook or one event of a reconciliation.            *)
Reads(w, e, hook, todo) ==
    Goes(w, [step |-> "APPLYING", event |-> e, hook |-> hook, todo |-> todo,
             seen |-> calls[EventOf[e].call]])
receiveWebhook(w, e) ==
    /\ Works(w, "IDLE") /\ hooks[e] = "NONE" /\ EventOf[e].call \in dialled
    /\ Reads(w, e, TRUE, {})
    /\ UNCHANGED callRows
Sync(w) ==
    /\ Works(w, "IDLE") /\ offered # {}
    /\ offered' = {}
    /\ Goes(w, [step |-> "SYNCING", todo |-> {e \in offered : EventOf[e].call \in dialled}])
    /\ UNCHANGED <<calls, hooks, applied, dialled, started, uploads, consent, raced>>
reconcile(w) ==
    LET todo == callTasks[w].todo IN
    /\ Works(w, "SYNCING")
    /\ IF todo = {} THEN Goes(w, Asleep)
       ELSE \E e \in todo : Reads(w, e, FALSE, todo \ {e})
    /\ UNCHANGED callRows

(* createInboundProviderCallIfMapped creates the call of a webhook; a call  *)
(* nobody knows is a failed webhook.  An event is written to the call if it *)
(* occurred no earlier than the latest that was read.                       *)
Latest(row, fact) == IF row.at > fact.at THEN row.at ELSE fact.at
Required(row, status) ==
    IF status = "COMPLETED" /\ row.requirement \notin {"RECORDED", "EXCEPTION"}
    THEN "REQUIRED" ELSE row.requirement
FaultyUpdates(row, fact) == TRUE
Updates(row, fact) == fact.at >= row.at
Written(seen, now, fact) ==
    IF Updates(seen, fact)
    THEN [now EXCEPT !.status = fact.status, !.requirement = Required(seen, fact.status),
                     !.at = Latest(now, fact)]
    ELSE [now EXCEPT !.at = Latest(now, fact)]
Continue(w) ==
    Goes(w, IF callTasks[w].hook THEN Asleep
            ELSE [step |-> "SYNCING", todo |-> callTasks[w].todo])
Hook(t, verdict) == hooks' = IF t.hook THEN [hooks EXCEPT ![t.event] = verdict] ELSE hooks

NoMatch(w) ==
    LET t == callTasks[w] IN
    /\ t.seen = NoCall /\ ~(t.hook /\ EventOf[t.event].call \in Inbound)
    /\ Hook(t, "FAILED") /\ UNCHANGED <<calls, applied, raced>>
(* A webhook whose event a reconciliation applied before is a failed one.   *)
AppliedBefore(w) ==
    LET t == callTasks[w] IN
    /\ t.seen # NoCall /\ t.event \in applied
    /\ Hook(t, "FAILED") /\ UNCHANGED <<calls, applied, raced>>
Apply(w) ==
    LET t == callTasks[w]
        fact == EventOf[t.event]
        c == fact.call
        created == t.seen = NoCall
        base == IF created THEN NewCall("REQUESTED", "NOT_REQUIRED", 0) ELSE t.seen
    IN
    /\ created => t.hook /\ c \in Inbound /\ ~Known(c)
    /\ t.event \notin applied
    /\ calls' = [calls EXCEPT ![c] = Written(base, IF created THEN base ELSE @, fact)]
    /\ applied' = applied \cup {t.event}
    /\ Hook(t, "PROCESSED")
    /\ Races(c, t.seen)
applyProviderEvent(w) ==
    /\ Works(w, "APPLYING")
    /\ callTasks[w].hook => hooks[callTasks[w].event] = "NONE"
    /\ NoMatch(w) \/ AppliedBefore(w) \/ Apply(w)
    /\ Continue(w)
    /\ UNCHANGED <<dialled, offered, started, uploads, consent>>

-----------------------------------------------------------------------------
(* recordOutcome and approveOutcomeException look at the call first; the    *)
(* outcome and the exception are unique, but neither excludes the other.    *)
BeginOutcome(w, c) ==
    /\ Works(w, "IDLE") /\ Known(c) /\ calls[c].requirement # "EXCEPTION"
    /\ Goes(w, [step |-> "OUTCOME", call |-> c, seen |-> calls[c]])
    /\ UNCHANGED callRows
recordOutcome(w) ==
    LET c == callTasks[w].call IN
    /\ Works(w, "OUTCOME") /\ ~calls[c].outcome
    /\ calls' = [calls EXCEPT ![c].requirement = "RECORDED", ![c].outcome = TRUE]
    /\ Races(c, callTasks[w].seen)
    /\ Goes(w, Asleep)
    /\ UNCHANGED <<hooks, applied, dialled, offered, started, uploads, consent>>
BeginException(w, c) ==
    /\ Works(w, "IDLE") /\ Known(c)
    /\ calls[c].status = "COMPLETED" /\ calls[c].requirement = "REQUIRED"
    /\ Goes(w, [step |-> "EXCEPTION", call |-> c, seen |-> calls[c]])
    /\ UNCHANGED callRows
approveOutcomeException(w) ==
    LET c == callTasks[w].call IN
    /\ Works(w, "EXCEPTION") /\ ~calls[c].exception
    /\ calls' = [calls EXCEPT ![c].requirement = "EXCEPTION", ![c].exception = TRUE]
    /\ Races(c, callTasks[w].seen)
    /\ Goes(w, Asleep)
    /\ UNCHANGED <<hooks, applied, dialled, offered, started, uploads, consent>>

-----------------------------------------------------------------------------
(* beginManualRecordingUpload, for a call that is known or a new one that   *)
(* is over; the receipt is part of the transaction.  The object is checked  *)
(* against the metadata, then the recording becomes available.              *)
PrepareUpload(w, u, c) ==
    /\ Works(w, "IDLE") /\ uploads[u] = "NONE" /\ consent /\ c \notin dialled
    /\ Goes(w, [step |-> "PREPARED", upload |-> u, call |-> c])
    /\ UNCHANGED callRows
beginManualRecordingUpload(w) ==
    LET t == callTasks[w] IN
    /\ Works(w, "PREPARED") /\ uploads[t.upload] = "NONE"
    /\ uploads' = [uploads EXCEPT ![t.upload] = "PENDING"]
    /\ IF Known(t.call) THEN UNCHANGED calls
       ELSE \E r \in {"REQUIRED", "RECORDED"} :
               calls' = [calls EXCEPT ![t.call] = NewCall("COMPLETED", r, 0)]
    /\ Goes(w, Asleep)
    /\ UNCHANGED <<hooks, applied, dialled, offered, started, consent, raced>>
VerifyUpload(w, u, c) ==
    /\ Works(w, "IDLE") /\ uploads[u] = "PENDING" /\ consent /\ Known(c)
    /\ Goes(w, [step |-> "VERIFIED", upload |-> u, call |-> c])
    /\ UNCHANGED callRows
completeManualRecordingUpload(w) ==
    LET u == callTasks[w].upload IN
    /\ Works(w, "VERIFIED") /\ uploads[u] = "PENDING"
    /\ uploads' = [uploads EXCEPT ![u] = "AVAILABLE"]
    /\ Goes(w, Asleep)
    /\ UNCHANGED <<calls, hooks, applied, dialled, offered, started, consent, raced>>
Withdraw ==
    /\ consent /\ consent' = FALSE
    /\ UNCHANGED <<calls, hooks, applied, dialled, offered, started, uploads, raced, callTasks>>

(* The handler fails: a unique index refuses its row, or it dies.           *)
Fails(w) ==
    /\ ~Works(w, "IDLE")
    /\ Goes(w, Asleep)
    /\ UNCHANGED callRows

-----------------------------------------------------------------------------
CallNext ==
    \/ \E w \in CallWorker :
        \/ \E k \in CallKey, c \in Call : startCall(w, k, c)
        \/ Dial(w) \/ InsertCall(w) \/ storeCommandReceipt(w)
        \/ \E e \in Event : receiveWebhook(w, e)
        \/ Sync(w) \/ reconcile(w) \/ applyProviderEvent(w)
        \/ \E c \in Call : BeginOutcome(w, c) \/ BeginException(w, c)
        \/ recordOutcome(w) \/ approveOutcomeException(w)
        \/ \E u \in Upload, c \in Call : PrepareUpload(w, u, c) \/ VerifyUpload(w, u, c)
        \/ beginManualRecordingUpload(w) \/ completeManualRecordingUpload(w)
        \/ Fails(w)
    \/ Withdraw

CallSpec == CallInit /\ [][CallNext]_callVars

-----------------------------------------------------------------------------
(* A call shows the provider's latest event, a completed one asks for its   *)
(* outcome, and the requirement tells what was recorded, in whatever order  *)
(* the events come in, twice, by webhook or by reconciliation, and whenever *)
(* the outcome is recorded.  Excepted are the calls that a handler has      *)
(* written after another one had changed what it read.                      *)
Said(c) == {e \in applied : EventOf[e].call = c}
ShowsEvents(c) ==
    LET row == calls[c] IN
    /\ \A e \in Said(c) : EventOf[e].at <= row.at
    /\ \A e \in Said(c) :
          (\A d \in Said(c) \cup {e} : EventOf[d].at < EventOf[e].at \/ d = e)
             /\ EventOf[e].at = row.at
             => row.status = EventOf[e].status
    /\ row.status = "COMPLETED" => row.requirement # "NOT_REQUIRED"
    /\ row.requirement = "RECORDED" => row.outcome
    /\ row.requirement = "EXCEPTION" => row.exception
    /\ row.outcome => ~row.exception /\ row.requirement = "RECORDED"
CallShowsEvents == \A c \in Call \ raced : Known(c) => ShowsEvents(c)
=============================================================================
