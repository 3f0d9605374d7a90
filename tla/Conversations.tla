--------------------------- MODULE Conversations ---------------------------
(* The conversations of the unified inbox, messaging.service.ts: how an     *)
(* inbound message finds or opens the conversation of its customer, the     *)
(* service window in which an agent may write freely, notes, the unread     *)
(* count, the hand-over of a conversation from one owner to another, and    *)
(* the pages in which an agent reads the thread.                            *)
(*                                                                          *)
(* A handler is a queue worker, a webhook request without a queue, or a     *)
(* request for reconciliation.  Its reads and transactions are steps; the   *)
(* lease of a claim and the wait before a retry are over at any time.       *)
(* Outbound messages are followed to the provider in Messaging; here they   *)
(* are the rows an agent adds.  Of the templates there are those of the     *)
(* UTILITY category, which a customer's own message opts in to; nothing     *)
(* under src/ suppresses a customer.  A channel is one connection, and no   *)
(* code closes a conversation.                                              *)
EXTENDS Naturals, Sequences, FiniteSets, SequencesExt

CONSTANTS
    Customer,      \* remote addresses
    Inbound,       \* messages from customers, by the provider's ids
    SenderOf,      \* the customer of an inbound message
    Referred,      \* inbound messages with a Click-to-WhatsApp referral
    OnFile,        \* customers whose phone a lead has from the start
    Outbound,      \* what agents send or note, by idempotency key
    Handler,       \* workers and requests that process webhook events
    Agent,         \* requests of agents
    Owner,         \* memberships that may own a conversation
    None,
    Window,        \* serviceWindowHours
    MaxTries,      \* outboundMaxAttempts, for events too
    ThreadPage,    \* rows of a page of the thread
    Moment,        \* times at which a row may be received, to the microsecond
    MaxInboundClaims, \* bound: claims of one event
    MaxHour,       \* bound of the clock
    MaxHandovers   \* bound: assignments of one conversation

ASSUME ConversationsAssumption ==
    /\ SenderOf \in [Inbound -> Customer] /\ Referred \subseteq Inbound
    /\ OnFile \subseteq Customer /\ Inbound \cap Outbound = {}
    /\ None \notin Owner \cup Inbound \cup Outbound \cup Customer
    /\ ThreadPage \in Nat \ {0} /\ Window \in Nat /\ MaxTries \in Nat \ {0}
    /\ MaxInboundClaims \in Nat /\ MaxHour \in Nat /\ MaxHandovers \in Nat
ASSUME RowsAssumption ==
    /\ Moment \subseteq [ms: Nat, us: 0..999]
    /\ Inbound \cup Outbound \subseteq Nat      \* the order of the rows' random ids

VARIABLES
    leads,      \* customers with a contact and a lead
    threads,    \* conversations, by customer: one is not CLOSED at most
    receipts,   \* webhook_events with a MESSAGE
    timeline,   \* rows of messages, as they were committed
    handovers,  \* conversation_assignments, by customer, in their order
    desk,       \* what each handler is doing
    draft,      \* what each agent's request has read
    reader,     \* what each agent has read of a thread
    hour

inbox == <<leads, threads, timeline, handovers>>
convVars == <<inbox, receipts, desk, draft, reader, hour>>

-----------------------------------------------------------------------------
NoThread == [open |-> FALSE, owner |-> None, version |-> 0, unread |-> 0, lastIn |-> 0, met |-> {}]
AtRest == [step |-> "IDLE", event |-> None, attempt |-> 0]
NoDraft == [step |-> "NONE", customer |-> None, kind |-> "NONE", at |-> 0, seen |-> 0, from |-> None]
NoPage == [customer |-> None, before |-> 0, first |-> 0, seen |-> {}, cursors |-> {}, more |-> FALSE]

Try == [event: Inbound \cup {None}, attempt: 0..MaxInboundClaims]
(* met, history: the tries that had found no conversation when it opened. *)
ThreadRow == [open: BOOLEAN, owner: Owner \cup {None}, version: Nat, unread: Nat,
              lastIn: 0..MaxHour, met: SUBSET Try]
Receipt == [status: {"NONE", "RECEIVED", "PROCESSING", "FAILED", "PROCESSED", "DUPLICATE",
                     "DEAD_LETTER"}, attempts: 0..MaxInboundClaims, at: 0..MaxHour]
ThreadMessage == [id: Inbound \cup Outbound, customer: Customer, at: 0..MaxHour,
               kind: {"INBOUND", "TEXT", "TEMPLATE", "NOTE"}, received: Moment]

ConversationsTypeOK ==
    /\ leads \subseteq Customer
    /\ threads \in [Customer -> ThreadRow]
    /\ receipts \in [Inbound -> Receipt]
    /\ timeline \in Seq(ThreadMessage)
    /\ handovers \in [Customer -> Seq([from: Owner \cup {None}, to: Owner \cup {None}])]
    /\ desk \in [Handler -> [step: {"IDLE", "CLAIMED", "MATCH", "OPEN", "RECORD", "DONE",
                                    "UNIQUE", "ERROR"},
                             event: Inbound \cup {None}, attempt: 0..MaxInboundClaims]]
    /\ draft \in [Agent -> [step: {"NONE", "CHECKED", "OPENED", "ASSIGNING"},
                            customer: Customer \cup {None},
                            kind: {"NONE", "TEXT", "TEMPLATE"}, at: 0..MaxHour,
                            seen: Nat, from: Owner \cup {None}]]
    /\ reader \in [Agent -> [customer: Customer \cup {None}, before: Nat, first: Nat,
                             seen: SUBSET Nat, cursors: SUBSET Nat, more: BOOLEAN]]
    /\ hour \in 0..MaxHour

ConversationsInit ==
    /\ leads = OnFile
    /\ threads = [c \in Customer |-> NoThread]
    /\ receipts = [e \in Inbound |-> [status |-> "NONE", attempts |-> 0, at |-> 0]]
    /\ timeline = <<>>
    /\ handovers = [c \in Customer |-> <<>>]
    /\ desk = [h \in Handler |-> AtRest]
    /\ draft = [a \in Agent |-> NoDraft]
    /\ reader = [a \in Agent |-> NoPage]
    /\ hour = 0

Kept(id) == \E i \in DOMAIN timeline : timeline[i].id = id
(* received_at is the time at which the row's transaction began: a row may  *)
(* be older than one that was committed before it.                          *)
Line(id, c, at, kind, t) == [id |-> id, customer |-> c, at |-> at, kind |-> kind, received |-> t]
Busy(h, step) == desk[h].step = step
Sender(h) == SenderOf[desk[h].event]
Turn(h, step) == desk' = [desk EXCEPT ![h].step = step]

-----------------------------------------------------------------------------
(* Inbound messages.                                                        *)

(* The receipt commits before the webhook is answered; one that comes again *)
(* finds it.  What the provider sends was written at some time before.      *)
registerWebhookEvent(e) ==
    /\ receipts[e].status = "NONE"
    /\ \E at \in 0..hour :
         receipts' = [receipts EXCEPT ![e].status = "RECEIVED", ![e].at = at]
    /\ UNCHANGED <<inbox, desk, draft, reader, hour>>

(* processStoredWebhookEvent: the claim, for the time of its lease. *)
ClaimInbound(h, e) ==
    /\ desk[h].step = "IDLE"
    /\ receipts[e].status \in {"RECEIVED", "FAILED", "PROCESSING"}
    /\ receipts[e].attempts < MaxInboundClaims
    /\ receipts' = [receipts EXCEPT ![e].status = "PROCESSING", ![e].attempts = @ + 1]
    /\ desk' = [desk EXCEPT ![h] = [step |-> "CLAIMED", event |-> e,
                                    attempt |-> receipts[e].attempts + 1]]
    /\ UNCHANGED <<inbox, draft, reader, hour>>

(* processInboundMessage looks for the conversation, *)
FindThread(h) ==
    /\ Busy(h, "CLAIMED")
    /\ Turn(h, IF threads[Sender(h)].open THEN "RECORD" ELSE "MATCH")
    /\ UNCHANGED <<inbox, receipts, draft, reader, hour>>

(* createConversationForInbound for the contact and its lead, which a       *)
(* referral may create; without either the message stays unmatched,         *)
MatchLead(h) ==
    /\ Busy(h, "MATCH")
    /\ LET c == Sender(h)
           found == c \in leads \/ desk[h].event \in Referred
       IN  /\ leads' = IF found THEN leads \cup {c} ELSE leads
           /\ Turn(h, IF found THEN "OPEN" ELSE "ERROR")
    /\ UNCHANGED <<threads, timeline, handovers, receipts, draft, reader, hour>>

(* inserts the conversation, whose unique index lets one of two such        *)
(* transactions through and fails the other, *)
TryOf(h) == [event |-> desk[h].event, attempt |-> desk[h].attempt]
Meeting(h) ==
    {TryOf(g) : g \in {x \in Handler \ {h} : /\ desk[x].step \in {"MATCH", "OPEN"}
                                           /\ Sender(x) = Sender(h)}}
OpenThread(h) ==
    /\ Busy(h, "OPEN")
    /\ LET c == Sender(h)
       IN  IF threads[c].open
           THEN /\ Turn(h, "UNIQUE")
                /\ UNCHANGED threads
           ELSE /\ Turn(h, "RECORD")
                /\ \E o \in Owner \cup {None} :   \* the conversation owner of the lead
                     threads' = [threads EXCEPT ![c] = [NoThread EXCEPT !.open = TRUE, !.owner = o,
                                                      !.version = 1, !.met = Meeting(h)]]
    /\ UNCHANGED <<leads, timeline, handovers, receipts, draft, reader, hour>>

(* Faulty: a message passes for a duplicate of any of its sender. *)
FaultyFresh(e) == \A i \in DOMAIN timeline : timeline[i].customer # SenderOf[e]

Fresh(e) == ~Kept(e)

(* and in another transaction the message, whose id is unique; the          *)
(* conversation's times are the message's, and the unread count goes up.    *)
RecordInbound(h) ==
    /\ Busy(h, "RECORD")
    /\ LET e == desk[h].event
           c == Sender(h)
       IN  IF Fresh(e)
           THEN /\ \E t \in Moment :
                     timeline' = Append(timeline, Line(e, c, receipts[e].at, "INBOUND", t))
                /\ threads' = [threads EXCEPT ![c].lastIn = receipts[e].at, ![c].unread = @ + 1]
                /\ Turn(h, "DONE")
           ELSE /\ Turn(h, "UNIQUE")
                /\ UNCHANGED <<timeline, threads>>
    /\ UNCHANGED <<leads, handovers, receipts, draft, reader, hour>>

(* A statement fails for another reason, or the process dies. *)
Interrupted(h) ==
    /\ desk[h].step \in {"CLAIMED", "MATCH", "OPEN", "RECORD"}
    /\ Turn(h, "ERROR")
    /\ UNCHANGED <<inbox, receipts, draft, reader, hour>>

HandlerDies(h) ==
    /\ desk[h].step # "IDLE"
    /\ desk' = [desk EXCEPT ![h] = AtRest]
    /\ UNCHANGED <<inbox, receipts, draft, reader, hour>>

(* A unique violation is taken for a delivery that was processed before;    *)
(* any other error is tried again until the attempts are used up.           *)
InboundVerdict(step, attempt) ==
    CASE step = "DONE"   -> "PROCESSED"
      [] step = "UNIQUE" -> "DUPLICATE"
      [] step = "ERROR"  -> IF attempt >= MaxTries THEN "DEAD_LETTER" ELSE "FAILED"

(* The verdict is written if nobody has claimed the event since. *)
FinishInbound(h) ==
    /\ desk[h].step \in {"DONE", "UNIQUE", "ERROR"}
    /\ LET e == desk[h].event
       IN  receipts' = IF receipts[e].attempts = desk[h].attempt
                       THEN [receipts EXCEPT ![e].status = InboundVerdict(desk[h].step, desk[h].attempt)]
                       ELSE receipts
    /\ desk' = [desk EXCEPT ![h] = AtRest]
    /\ UNCHANGED <<inbox, draft, reader, hour>>

-----------------------------------------------------------------------------
(* Agents.                                                                  *)

Prepare(a, d) ==
    /\ draft' = [draft EXCEPT ![a] = d]
    /\ UNCHANGED <<inbox, receipts, desk, reader, hour>>

Post(id, c, kind) ==
    /\ \E t \in Moment : timeline' = Append(timeline, Line(id, c, hour, kind, t))
    /\ UNCHANGED <<leads, threads, handovers, receipts, desk, reader, hour>>

HasWritten(c) == \E i \in DOMAIN timeline : timeline[i].customer = c /\ timeline[i].kind = "INBOUND"

(* Faulty: any message of the conversation keeps the window open. *)
FaultyWindowOpen(c) ==
    \E i \in DOMAIN timeline :
        timeline[i].customer = c /\ timeline[i].kind # "NOTE" /\ timeline[i].at + Window > hour

WindowOpen(c) == HasWritten(c) /\ threads[c].lastIn + Window > hour

(* sendMessage reads the conversation and asks assertOutboundAllowed: text  *)
(* while the window is open, a template for the customer who has opted in.  *)
CheckSend(a, c, kind) ==
    /\ draft[a].step = "NONE" /\ threads[c].open
    /\ \/ kind = "TEXT" /\ WindowOpen(c)
       \/ kind = "TEMPLATE" /\ HasWritten(c)
    /\ Prepare(a, [NoDraft EXCEPT !.step = "CHECKED", !.customer = c, !.kind = kind, !.at = hour])

(* The row is written later.  A key that is there already is answered with  *)
(* its message, before the check or by the unique index.                    *)
CommitSend(a, m) ==
    /\ draft[a].step = "CHECKED"
    /\ draft' = [draft EXCEPT ![a] = NoDraft]
    /\ IF Kept(m)
       THEN UNCHANGED <<inbox, receipts, desk, reader, hour>>
       ELSE Post(m, draft[a].customer, draft[a].kind)

addInternalNote(a, c, m) ==
    /\ draft[a].step = "NONE" /\ threads[c].open /\ ~Kept(m)
    /\ Post(m, c, "NOTE")
    /\ UNCHANGED draft

(* Whatever has arrived since the page was read counts as read, too. *)
markRead(c) ==
    /\ threads[c].unread > 0
    /\ threads' = [threads EXCEPT ![c].unread = 0]
    /\ UNCHANGED <<leads, timeline, handovers, receipts, desk, draft, reader, hour>>

(* To assign a conversation, an agent opens it, *)
OpenDetail(a, c) ==
    /\ draft[a].step = "NONE" /\ threads[c].open
    /\ Prepare(a, [NoDraft EXCEPT !.step = "OPENED", !.customer = c, !.seen = threads[c].version])

(* the request reads it, checks the new owner and team, *)
BeginAssign(a) ==
    /\ draft[a].step = "OPENED"
    /\ Prepare(a, [draft[a] EXCEPT !.step = "ASSIGNING", !.from = threads[draft[a].customer].owner])

(* Faulty: the conversation may have been assigned since it was opened. *)
FaultyUnchangedSince(a) == TRUE

UnchangedSince(a) == threads[draft[a].customer].version = draft[a].seen

(* and writes the owner, and the hand-over from the owner it has read,      *)
(* unless the version is another than the agent saw.                        *)
CommitAssign(a, o) ==
    /\ draft[a].step = "ASSIGNING"
    /\ draft' = [draft EXCEPT ![a] = NoDraft]
    /\ LET c == draft[a].customer
       IN  IF UnchangedSince(a)
           THEN /\ Len(handovers[c]) < MaxHandovers
                /\ threads' = [threads EXCEPT ![c].owner = o, ![c].version = @ + 1]
                /\ handovers' = [handovers EXCEPT ![c] = Append(@, [from |-> draft[a].from, to |-> o])]
           ELSE UNCHANGED <<threads, handovers>>
    /\ UNCHANGED <<leads, timeline, receipts, desk, reader, hour>>

-----------------------------------------------------------------------------
(* Reading.  A page holds the last rows before the cursor by the time they  *)
(* were received, and is shown by the time they were written (of one time,  *)
(* in any order); the cursor of the next is the first row shown, which need *)
(* not be the first received.                                               *)
Received(c) == {i \in DOMAIN timeline : timeline[i].customer = c}
MsOf(i) == timeline[i].received.ms
UsOf(i) == timeline[i].received.us
IdOf(i) == timeline[i].id
Older(i, j) ==
    \/ MsOf(i) < MsOf(j)
    \/ MsOf(i) = MsOf(j) /\ UsOf(i) < UsOf(j)
    \/ MsOf(i) = MsOf(j) /\ UsOf(i) = UsOf(j) /\ IdOf(i) < IdOf(j)
Latest(rows) == {i \in rows : Cardinality({j \in rows : Older(i, j)}) < ThreadPage}
FirstShown(rows) == {i \in rows : \A j \in rows : timeline[i].at <= timeline[j].at}

(* encodeMessageCursor keeps the milliseconds of the row's time, and what   *)
(* is compared with it are microseconds: of the rows of that millisecond    *)
(* only those at its very beginning are before it.                          *)
PastCursor(i, f) ==
    \/ MsOf(i) < MsOf(f)
    \/ MsOf(i) = MsOf(f) /\ UsOf(i) = 0 /\ IdOf(i) < IdOf(f)

(* Faulty: the rows are chosen by the time they were written. *)
FaultyPage(rows) ==
    {i \in rows : Cardinality({j \in rows : timeline[i].at < timeline[j].at}) < ThreadPage}

Page(rows) == Latest(rows)

readMessagePage(a, c, rows, first, before) ==
    LET page == Page(rows)
        more == Cardinality(rows) > ThreadPage
    IN  /\ \E f \in IF more THEN FirstShown(page) ELSE {0} :
              reader' = [reader EXCEPT ![a] =
                            [customer |-> c, before |-> f, first |-> first,
                             seen |-> before.seen \cup page,
                             cursors |-> before.cursors \cup ({f} \ {0}), more |-> more]]
        /\ UNCHANGED <<inbox, receipts, desk, draft, hour>>

detail(a, c) ==
    /\ threads[c].open /\ ~reader[a].more
    /\ readMessagePage(a, c, Received(c), Len(timeline), NoPage)

messagePage(a) ==
    LET r == reader[a] IN
    /\ r.more
    /\ readMessagePage(a, r.customer, {i \in Received(r.customer) : PastCursor(i, r.before)},
                       r.first, r)

(* An hour goes by: no hour of the model's clock is shorter than a page. *)
HourPasses ==
    /\ hour < MaxHour
    /\ hour' = hour + 1
    /\ UNCHANGED <<inbox, receipts, desk, draft, reader>>

-----------------------------------------------------------------------------
HandlerStep(h) ==
    \/ \E e \in Inbound : ClaimInbound(h, e)
    \/ FindThread(h) \/ MatchLead(h) \/ OpenThread(h) \/ RecordInbound(h)
    \/ Interrupted(h) \/ HandlerDies(h) \/ FinishInbound(h)

AgentStep(a) ==
    \/ \E c \in Customer : \/ OpenDetail(a, c) \/ detail(a, c)
                           \/ \E kind \in {"TEXT", "TEMPLATE"} : CheckSend(a, c, kind)
                           \/ \E m \in Outbound : addInternalNote(a, c, m)
    \/ \E m \in Outbound : CommitSend(a, m)
    \/ BeginAssign(a) \/ messagePage(a)
    \/ \E o \in Owner \cup {None} : CommitAssign(a, o)

ConversationsNext ==
    \/ \E e \in Inbound : registerWebhookEvent(e)
    \/ \E h \in Handler : HandlerStep(h)
    \/ \E a \in Agent : AgentStep(a)
    \/ \E c \in Customer : markRead(c)
    \/ HourPasses

ConversationsSpec == ConversationsInit /\ [][ConversationsNext]_convVars

-----------------------------------------------------------------------------
(* docs/DECISIONS.md (ADR-0035): losing the queue "must not lose customer   *)
(* messages, duplicate delivery must be harmless".  An event that was done  *)
(* with or passed for a duplicate, and that no handler is still at, has its *)
(* message in a conversation.                                               *)
InboundKept ==
    \A e \in Inbound :
        /\ receipts[e].status \in {"PROCESSED", "DUPLICATE"}
        /\ \A h \in Handler : desk[h].event # e
        => Kept(e)

(* What is true of it: a new message passes for a duplicate only where the  *)
(* try that passed it had looked for the conversation of its customer, and  *)
(* found none, when another try opened it; a message passes for processed   *)
(* only when it is there, and none is there twice.                          *)
LostOnlyAtOpening ==
    /\ \A e \in Inbound : receipts[e].status = "PROCESSED" => Kept(e)
    /\ \A e \in Inbound : receipts[e].status = "DUPLICATE" /\ ~Kept(e) =>
          [event |-> e, attempt |-> receipts[e].attempts] \in threads[SenderOf[e]].met
    /\ \A i, j \in DOMAIN timeline : timeline[i].id = timeline[j].id => i = j

(* Free text rests on something the customer wrote less than a window       *)
(* before the request was checked, whatever was sent to them since and in   *)
(* whatever order their messages arrived.                                   *)
TextRestsOnInbound ==
    \A a \in Agent : draft[a].step = "CHECKED" /\ draft[a].kind = "TEXT" =>
        \E i \in Received(draft[a].customer) :
            timeline[i].kind = "INBOUND" /\ timeline[i].at + Window > draft[a].at

(* The hand-overs of a conversation are a chain that ends at its owner,     *)
(* though each names the previous owner from a read outside its own         *)
(* transaction.                                                             *)
HandoversAreAChain ==
    \A c \in Customer :
        LET chain == handovers[c]
        IN  /\ \A i \in 1..(Len(chain) - 1) : chain[i + 1].from = chain[i].to
            /\ chain # <<>> => chain[Len(chain)].to = threads[c].owner

(* An agent who has read a thread to its beginning has seen every message   *)
(* it had when it was opened, though the pages are cut in the order of      *)
(* arrival and shown in the order of writing: but for those received in the *)
(* millisecond of a cursor, before its row, that the cursor does not admit. *)
SkippedBy(i, cursors) ==
    \E f \in cursors : MsOf(i) = MsOf(f) /\ Older(i, f) /\ ~PastCursor(i, f)
ThreadReadToTheEnd ==
    \A a \in Agent : reader[a].customer # None /\ ~reader[a].more =>
        \A i \in Received(reader[a].customer) :
            i <= reader[a].first => i \in reader[a].seen \/ SkippedBy(i, reader[a].cursors)
=============================================================================
