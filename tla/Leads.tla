-------------------------------- MODULE Leads --------------------------------
(***************************************************************************)
(* Leads of one client, apps/api/src/leads/leads.service.ts: capture from  *)
(* forms and providers with the reuse of contacts and the rotation of a    *)
(* queue, the commands of the sales staff, the first-action deadline with  *)
(* its monitor, and the review of duplicate candidates.                    *)
(*                                                                         *)
(* A worker is a database transaction.  It reads without locks; a row it   *)
(* has updated is locked, and unseen by others, until it commits.  Two     *)
(* transactions that wait for each other are a deadlock, which the         *)
(* database breaks by rolling one back (RollBack, which also stands for    *)
(* every error on the way).                                                *)
(*                                                                         *)
(* Statuses that behave alike are one: WORKING stands for CONTACTED to     *)
(* NEGOTIATION.  Time is only which of its two marks a deadline has passed.*)
(***************************************************************************)
EXTENDS Naturals, FiniteSets, Sequences

CONSTANTS
    Lead, Contact, LeadWorker,
    Phone, Email,   \* what a request may carry; an e-mail address is optional
    Member,         \* memberships of sales staff
    Queue,          \* assignment queues, all of one branch
    QueueOrder,     \* the members of a queue, least recently assigned first
    Key,            \* idempotency keys of capture
    CommandKey,     \* idempotency keys of the other commands
    MaxActive,      \* maxActiveLeadsPerUser
    MaxLeadVersion      \* bound: versions of a lead

ASSUME LeadsAssumption ==
    /\ MaxActive \in Nat \ {0} /\ MaxLeadVersion \in Nat \ {0}
    /\ \A q \in Queue : QueueOrder[q] \in Seq(Member)
    /\ "NONE" \notin Contact \cup Lead \cup Member \cup Queue \cup Email

VARIABLES
    contacts,    \* contacts
    leads,       \* lead_opportunities
    timers,      \* lead_sla_timers, with escalations
    doubles,     \* lead_duplicate_candidates, at most one of a lead
    receipts,    \* lead_ingestion_receipts: what a key did
    followUps,   \* lead_follow_ups, by the key that asked for it
    rotation,    \* assignment_queue_members by lastAssignedAt
    leadTasks    \* what each worker is doing

leadVars == <<contacts, leads, timers, doubles, receipts, followUps, rotation, leadTasks>>
leadRows == <<contacts, leads, timers, doubles, receipts, followUps, rotation>>

-----------------------------------------------------------------------------
Status == {"PENDING_REVIEW", "CONTACT_ATTEMPT", "ACCEPTED", "WORKING",
           "BOOKING_CONFIRMED", "REJECTED", "LOST", "REOPENED"}
leadTransitions ==
    [PENDING_REVIEW |-> {"CONTACT_ATTEMPT", "ACCEPTED", "REJECTED"},
     CONTACT_ATTEMPT |-> {"ACCEPTED", "REJECTED"},
     ACCEPTED |-> {"WORKING", "LOST"},
     WORKING |-> {"WORKING", "BOOKING_CONFIRMED", "LOST"},
     BOOKING_CONFIRMED |-> {}, REJECTED |-> {"REOPENED"}, LOST |-> {"REOPENED"},
     REOPENED |-> {"ACCEPTED"}]
Active == Status \ {"BOOKING_CONFIRMED", "REJECTED", "LOST"}
SlaState == {"OPEN", "WARNING", "BREACHED", "MET"}
Watched == SlaState \ {"MET"}

Or(S) == S \cup {"NONE"}
Nothing == [status |-> "NONE"]
ContactRow == [status: {"KNOWN"}, phone: Phone, email: Or(Email), canonical: Or(Contact)]
(* via: the queue that chose the owner; returned: it was reopened.          *)
LeadRow == [status: Status, contact: Contact, sla: SlaState, acted: BOOLEAN,
            owner: Or(Member), via: Or(Queue), returned: BOOLEAN,
            version: 1..MaxLeadVersion]
TimerRow == [status: SlaState, passed: {"NEITHER", "WARNING", "DUE"}, escalated: BOOLEAN]
DoubleRow == [status: {"PENDING", "LINKED", "KEPT_SEPARATE", "DISMISSED"},
              contact: Contact, other: Contact]
Choice == [queue: Or(Queue), owner: Or(Member)]
LeadTask ==
    [step: {"IDLE"}]
    \cup [step: {"READ"}, key: Key, phone: Phone, email: Or(Email),
          contact: Or(Contact), similar: Or(Contact)]
    \cup [step: {"ROTATED"}, key: Key, phone: Phone, email: Or(Email),
          contact: Or(Contact), similar: Or(Contact), choice: Choice]
    \cup [step: {"STAFF"}, lead: Lead, seen: LeadRow]
    \cup [step: {"MOVED"}, lead: Lead, row: LeadRow, first: BOOLEAN]
    \cup [step: {"RECONCILE"}, todo: [Lead -> SlaState \cup {"NONE"}], state: [Lead -> SlaState \cup {"NONE"}],
          claimed: Or(Lead), moved: SUBSET Lead]
    \cup [step: {"REVIEW"}, lead: Lead, seen: DoubleRow]
Resting == [step |-> "IDLE"]

LeadTypeOK ==
    /\ contacts \in [Contact -> ContactRow \cup {Nothing}]
    /\ leads \in [Lead -> LeadRow \cup {Nothing}]
    /\ timers \in [Lead -> TimerRow \cup {Nothing}]
    /\ doubles \in [Lead -> DoubleRow \cup {Nothing}]
    /\ receipts \in [Key -> Or(Lead)]
    /\ followUps \in [CommandKey -> [status: {"OPEN", "COMPLETED"}, lead: Lead] \cup {Nothing}]
    /\ \A q \in Queue : rotation[q] \in Seq(Member)
    /\ \A w \in LeadWorker : leadTasks[w].step # "RECONCILE" => leadTasks[w] \in LeadTask

LeadInit ==
    /\ contacts = [c \in Contact |-> Nothing]
    /\ leads = [l \in Lead |-> Nothing]
    /\ timers = [l \in Lead |-> Nothing]
    /\ doubles = [l \in Lead |-> Nothing]
    /\ receipts = [k \in Key |-> "NONE"]
    /\ followUps = [k \in CommandKey |-> Nothing]
    /\ rotation = QueueOrder
    /\ leadTasks = [w \in LeadWorker |-> Resting]

-----------------------------------------------------------------------------
Turns(w, t) == leadTasks' = [leadTasks EXCEPT ![w] = t]
Stands(w, step) == leadTasks[w].step = step

(* Rows that a transaction other than w's has updated.                      *)
Others(w) == {v \in LeadWorker \ {w} : leadTasks[v].step # "IDLE"}
LeadFree(w, l) ==
    \A v \in Others(w) :
        /\ Stands(v, "MOVED") => leadTasks[v].lead # l
        /\ Stands(v, "RECONCILE") => l \notin leadTasks[v].moved
TimerFree(w, l) ==
    \A v \in Others(w) :
        Stands(v, "RECONCILE") => leadTasks[v].state[l] = "NONE"

-----------------------------------------------------------------------------
(* createLead: the receipt of the key, then the contact with the phone and  *)
(* one with the e-mail address.  A key that is known only replays.          *)
HasPhone(p) == {c \in Contact : contacts[c] # Nothing /\ contacts[c].phone = p}
HasEmail(e) == {c \in Contact : contacts[c] # Nothing /\ contacts[c].email = e}
OneOf(S) == IF S = {} THEN {"NONE"} ELSE S

BeginCapture(w, k, p, e) ==
    /\ Stands(w, "IDLE") /\ receipts[k] = "NONE"
    /\ \E c \in OneOf(HasPhone(p)),
          s \in (IF e = "NONE" THEN {"NONE"} ELSE OneOf(HasEmail(e))) :
           Turns(w, [step |-> "READ", key |-> k, phone |-> p, email |-> e,
                     contact |-> c, similar |-> s])
    /\ UNCHANGED leadRows

(* roundRobin: the members of the queue that nobody has locked, in turn;    *)
(* the first who is eligible and has room.  Rows of a queue are locked all  *)
(* together, so a concurrent capture finds nobody.                          *)
FaultyOpenTo(w, q) == TRUE
OpenTo(w, q) == \A v \in Others(w) : Stands(v, "ROTATED") => leadTasks[v].choice.queue # q
Load(m) == Cardinality({l \in Lead : leads[l] # Nothing /\ leads[l].owner = m
                                     /\ leads[l].status \in Active})
HasRoom(m) == Load(m) < MaxActive
NoChoice == [queue |-> "NONE", owner |-> "NONE"]
roundRobin(w, choice) ==
    \/ choice = NoChoice          \* outside working hours, or no automatic queue
    \/ \E q \in Queue :
        \/ ~OpenTo(w, q) /\ choice = NoChoice
        \/ /\ OpenTo(w, q)
           /\ \E eligible \in SUBSET Member :
                LET fit == {i \in DOMAIN rotation[q] :
                               rotation[q][i] \in eligible /\ HasRoom(rotation[q][i])}
                IN \/ fit = {} /\ choice = [queue |-> q, owner |-> "NONE"]
                   \/ \E i \in fit :
                          /\ \A j \in fit : i <= j
                          /\ choice = [queue |-> q, owner |-> rotation[q][i]]
Rotate(w) ==
    /\ Stands(w, "READ")
    /\ \E choice \in Choice :
        /\ roundRobin(w, choice)
        /\ LET t == leadTasks[w] IN
           Turns(w, [step |-> "ROTATED", key |-> t.key, phone |-> t.phone, email |-> t.email,
                     contact |-> t.contact, similar |-> t.similar, choice |-> choice])
    /\ UNCHANGED leadRows

(* The rest of the transaction: contact, lead, timer, candidate, receipt.   *)
(* The receipt is unique: a second capture under the key is rolled back and *)
(* answers with the first one's lead.                                       *)
LastTurn(s, m) == Append(SelectSeq(s, LAMBDA x : x # m), m)
ReceiptTaken(k) == receipts[k] # "NONE"
Replay(w) == ReceiptTaken(leadTasks[w].key) /\ UNCHANGED leadRows
Insert(w, l, c) ==
    LET t == leadTasks[w]
        new == t.contact = "NONE"
    IN
    /\ ~ReceiptTaken(t.key)
    /\ leads[l] = Nothing
    /\ IF new THEN contacts[c] = Nothing ELSE c = t.contact
    /\ contacts' = IF new THEN [contacts EXCEPT ![c] = [status |-> "KNOWN", phone |-> t.phone,
                                    email |-> t.email, canonical |-> "NONE"]]
                   ELSE contacts
    /\ leads' = [leads EXCEPT ![l] =
           [status |-> "PENDING_REVIEW", contact |-> c, sla |-> "OPEN", acted |-> FALSE,
            owner |-> t.choice.owner,
            via |-> IF t.choice.owner = "NONE" THEN "NONE" ELSE t.choice.queue,
            returned |-> FALSE, version |-> 1]]
    /\ timers' = [timers EXCEPT ![l] =
           [status |-> "OPEN", passed |-> "NEITHER", escalated |-> FALSE]]
    /\ doubles' = IF t.similar \in {"NONE", c} THEN doubles
                  ELSE [doubles EXCEPT ![l] =
                           [status |-> "PENDING", contact |-> c, other |-> t.similar]]
    /\ receipts' = [receipts EXCEPT ![t.key] = l]
    /\ rotation' = IF t.choice.owner = "NONE" THEN rotation
                   ELSE [rotation EXCEPT ![t.choice.queue] = LastTurn(@, t.choice.owner)]
    /\ UNCHANGED followUps
createLead(w) ==
    /\ Stands(w, "ROTATED")
    /\ Replay(w) \/ \E l \in Lead, c \in Contact : Insert(w, l, c)
    /\ Turns(w, Resting)

-----------------------------------------------------------------------------
(* accessibleLead: the staff's commands read the lead without a lock.       *)
accessibleLead(w, l) ==
    /\ Stands(w, "IDLE") /\ leads[l] # Nothing
    /\ Turns(w, [step |-> "STAFF", lead |-> l, seen |-> leads[l]])
    /\ UNCHANGED leadRows

(* transition and assign update the lead where it still has the version     *)
(* that was read; a transition that is a first action also meets the timer. *)
(* updated stands for the row it leaves, waiting for the commit.            *)
Unchanged(w) ==
    LET t == leadTasks[w] IN
    LeadFree(w, t.lead) /\ leads[t.lead].version = t.seen.version
FirstAction(row, to) == ~row.acted /\ to \in {"CONTACT_ATTEMPT", "ACCEPTED"}
transition(w, to) ==
    LET t == leadTasks[w]
        first == FirstAction(t.seen, to)
        now == leads[t.lead]
    IN
    /\ Stands(w, "STAFF") /\ t.seen.version < MaxLeadVersion
    /\ to \in leadTransitions[t.seen.status]
    /\ Unchanged(w)
    /\ Turns(w, [step |-> "MOVED", lead |-> t.lead, first |-> first,
                 row |-> [now EXCEPT !.status = to, !.version = @ + 1,
                                     !.returned = @ \/ to = "REOPENED",
                                     !.acted = @ \/ first,
                                     !.sla = IF first THEN "MET" ELSE @]])
    /\ UNCHANGED leadRows
assignLead(w, m) ==
    LET t == leadTasks[w] IN
    /\ Stands(w, "STAFF") /\ t.seen.version < MaxLeadVersion
    /\ Unchanged(w)
    /\ Turns(w, [step |-> "MOVED", lead |-> t.lead, first |-> FALSE,
                 row |-> [leads[t.lead] EXCEPT !.owner = m, !.via = "NONE",
                                               !.version = @ + 1]])
    /\ UNCHANGED leadRows
FinishMove(w) ==
    LET t == leadTasks[w] IN
    /\ Stands(w, "MOVED")
    /\ t.first => TimerFree(w, t.lead)
    /\ leads' = [leads EXCEPT ![t.lead] = t.row]
    /\ timers' = IF t.first THEN [timers EXCEPT ![t.lead].status = "MET"] ELSE timers
    /\ Turns(w, Resting)
    /\ UNCHANGED <<contacts, doubles, receipts, followUps, rotation>>

(* addFollowUp through commandReceipt, completeFollowUp.  A second command  *)
(* under the key replays, or is rolled back by the unique receipt.          *)
addFollowUp(w, k) ==
    LET t == leadTasks[w] IN
    /\ Stands(w, "STAFF")
    /\ followUps[k] = Nothing /\ LeadFree(w, t.lead)
    /\ followUps' = [followUps EXCEPT ![k] = [status |-> "OPEN", lead |-> t.lead]]
    /\ Turns(w, Resting)
    /\ UNCHANGED <<contacts, leads, timers, doubles, receipts, rotation>>
completeFollowUp(w, k) ==
    LET t == leadTasks[w] IN
    /\ Stands(w, "STAFF")
    /\ followUps[k].status = "OPEN" /\ followUps[k].lead = t.lead
    /\ followUps' = [followUps EXCEPT ![k].status = "COMPLETED"]
    /\ Turns(w, Resting)
    /\ UNCHANGED <<contacts, leads, timers, doubles, receipts, rotation>>

-----------------------------------------------------------------------------
TimePasses(l) ==
    /\ timers[l] # Nothing /\ timers[l].passed # "DUE"
    /\ timers' = [timers EXCEPT ![l].passed = IF @ = "NEITHER" THEN "WARNING" ELSE "DUE"]
    /\ UNCHANGED <<contacts, leads, doubles, receipts, followUps, rotation, leadTasks>>

(* reconcileTenantSla, for the monitor and for a manager: the timers are    *)
(* read at the start; each is claimed where it still has the state that was *)
(* read, then its lead is updated; all is committed at the end.             *)
NextState(l) == IF timers[l].passed = "DUE" THEN "BREACHED" ELSE "WARNING"
BeginReconcile(w) ==
    LET due == {l \in Lead : /\ timers[l].status \in Watched
                             /\ timers[l].passed # "NEITHER"
                             /\ timers[l].status # NextState(l)}
    IN
    /\ Stands(w, "IDLE") /\ due # {}
    /\ Turns(w, [step |-> "RECONCILE", claimed |-> "NONE", moved |-> {},
                 todo |-> [l \in Lead |-> IF l \in due THEN timers[l].status ELSE "NONE"],
                 state |-> [l \in Lead |-> "NONE"]])
    /\ UNCHANGED leadRows
FaultyClaimable(l, state) == TRUE
Claimable(l, state) == timers[l].status = state
Claim(w, l) ==
    LET t == leadTasks[w] IN
    /\ Stands(w, "RECONCILE") /\ t.claimed = "NONE" /\ t.todo[l] # "NONE"
    /\ TimerFree(w, l)
    /\ Turns(w, IF Claimable(l, t.todo[l])
                THEN [t EXCEPT !.todo[l] = "NONE", !.claimed = l,
                               !.state[l] = NextState(l)]
                ELSE [t EXCEPT !.todo[l] = "NONE"])
    /\ UNCHANGED leadRows
MarkLead(w) ==
    LET t == leadTasks[w] IN
    /\ Stands(w, "RECONCILE") /\ t.claimed # "NONE"
    /\ LeadFree(w, t.claimed)
    /\ Turns(w, [t EXCEPT !.claimed = "NONE", !.moved = @ \cup {t.claimed}])
    /\ UNCHANGED leadRows
CommitReconcile(w) ==
    LET t == leadTasks[w] IN
    /\ Stands(w, "RECONCILE") /\ t.claimed = "NONE"
    /\ \A l \in Lead : t.todo[l] = "NONE"
    /\ timers' = [l \in Lead |-> IF l \notin t.moved THEN timers[l]
                                 ELSE [timers[l] EXCEPT !.status = t.state[l],
                                          !.escalated = @ \/ t.state[l] = "BREACHED"]]
    /\ leads' = [l \in Lead |-> IF l \notin t.moved THEN leads[l]
                                ELSE [leads[l] EXCEPT !.sla = t.state[l]]]
    /\ Turns(w, Resting)
    /\ UNCHANGED <<contacts, doubles, receipts, followUps, rotation>>

-----------------------------------------------------------------------------
(* resolveDuplicate: the candidate is read while it is pending, then the    *)
(* contact and the candidate are written whatever has become of them.       *)
BeginDoubleReview(w, l) ==
    /\ Stands(w, "IDLE") /\ doubles[l].status = "PENDING"
    /\ Turns(w, [step |-> "REVIEW", lead |-> l, seen |-> doubles[l]])
    /\ UNCHANGED leadRows
resolveDuplicate(w, verdict) ==
    LET t == leadTasks[w]
        pair == {t.seen.contact, t.seen.other}
    IN
    /\ Stands(w, "REVIEW")
    /\ IF verdict = "LINKED"
       THEN \E canonical \in pair :
               contacts' = [c \in Contact |-> IF c \in pair \ {canonical}
                                THEN [contacts[c] EXCEPT !.canonical = canonical]
                                ELSE contacts[c]]
       ELSE UNCHANGED contacts
    /\ doubles' = [doubles EXCEPT ![t.lead].status = verdict]
    /\ Turns(w, Resting)
    /\ UNCHANGED <<leads, timers, receipts, followUps, rotation>>

RollBack(w) ==
    /\ ~Stands(w, "IDLE")
    /\ Turns(w, Resting)
    /\ UNCHANGED leadRows

-----------------------------------------------------------------------------
LeadNext ==
    \/ \E w \in LeadWorker :
        \/ \E k \in Key, p \in Phone, e \in Or(Email) : BeginCapture(w, k, p, e)
        \/ Rotate(w) \/ createLead(w)
        \/ \E l \in Lead : accessibleLead(w, l) \/ Claim(w, l) \/ BeginDoubleReview(w, l)
        \/ \E to \in Status : transition(w, to)
        \/ \E m \in Member : assignLead(w, m)
        \/ \E k \in CommandKey : addFollowUp(w, k) \/ completeFollowUp(w, k)
        \/ FinishMove(w)
        \/ BeginReconcile(w) \/ MarkLead(w) \/ CommitReconcile(w)
        \/ \E v \in {"LINKED", "KEPT_SEPARATE", "DISMISSED"} : resolveDuplicate(w, v)
        \/ RollBack(w)
    \/ \E l \in Lead : TimePasses(l)

LeadSpec == LeadInit /\ [][LeadNext]_leadVars

-----------------------------------------------------------------------------
(* The lead shows the state of its deadline, and MET is the mark of a first *)
(* action that no later run of the monitor takes back.  The transition      *)
(* writes the lead first and then the timer, the monitor the timer first,   *)
(* and neither looks at the other's row before it writes.                   *)
DeadlineAgrees ==
    \A l \in Lead : leads[l] # Nothing =>
        /\ leads[l].sla = timers[l].status
        /\ timers[l].status = "MET" <=> leads[l].acted
        /\ timers[l].status = "BREACHED" => timers[l].escalated

(* The rotation of a queue gives nobody more than maxActiveLeadsPerUser     *)
(* active leads, however many are captured at once: the count is taken      *)
(* without a lock on any lead.  Leads that were reopened or handed over by  *)
(* hand come on top.                                                        *)
RotationRespectsLimit ==
    \A q \in Queue, m \in Member :
        Cardinality({l \in Lead : /\ leads[l] # Nothing
                                  /\ leads[l].via = q /\ leads[l].owner = m
                                  /\ leads[l].status \in Active /\ ~leads[l].returned})
            <= MaxActive
=============================================================================
