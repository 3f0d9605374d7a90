# Go Digital: a verification project for the automobile CRM

TLA+ models of the parts of this repository where several people, processes and
phones work on the same rows, the TLC runs that check them on small instances,
and proofs of what matters most for every size. The models are read from the
code; documents are quoted only where a run refutes what they say.

    tlasany M.tla                          parse a module
    tlc -workers 2 -config X.cfg M.tla     one run (section 3 lists them)
    tlapm MProofs.tla                      check the proofs of one component

`PROJECT.json` is the machine-readable side of this page: components, runs,
mutants, the source lines every definition stands for, findings, hazards and
theorems.

## 1. The system

A pnpm monorepo. `apps/api` (NestJS) keeps everything in PostgreSQL at READ
COMMITTED through Drizzle; `apps/web` (Next.js) and `apps/mobile` (Expo) are its
clients; `packages/` holds contracts, the schema and presentation. There is one
tenant per row (`client_organization_id`), and nothing is shared between tenants
but identities, so every model is of one tenant, or of one account.

Three mechanisms carry most of the correctness of the API:

- **command()**: a writing service wraps a command in one transaction that first
  inserts a receipt under the caller's idempotency key and, if the receipt was
  there, returns its stored response;
- **lock, version, status**: a command locks its *main* row with SELECT ... FOR
  UPDATE, compares `expected_version`, checks the status and writes the row with
  the next version; any throw rolls the whole transaction back;
- **monitors and queues**: `setInterval` timers in every API process, sweeps at
  the head of list requests, and BullMQ jobs that run again when their worker's
  lock is lost; each selects candidates without a lock and then works on them.

What is hard is everything these do not cover: rows read before the lock, rows
written beside the locked one, balances summed over unlocked rows, stale
candidate lists, providers that are awaited between a read and a write, and an
idempotency key whose request outlives the phone.

### Inventory of components

| Component | State | Operations | Interaction | Hard behaviour | What makes it correct |
|---|---|---|---|---|---|
| Inventory (`inventory.service.ts`, its monitor) | units, reservations, allocations, transfers, history | create, transition, reserve, extend, release, allocate, reallocate, transfer, expire | allocations carry booking ids of commercial; delivery writes units and allocations | reads before the lock, stale candidate lists, two writers of a link | a unit's status and its open rows agree; stale commands are rejected; a held unit goes to its holder; overdue holds end |
| Commercial: quotations, bookings, payments (`commercial.service.ts`) | quotations, versions, discount approvals, bookings, payment entries and events | quote, revise, decide, book, cancel, record, verify, reverse | reads and links allocations; readiness for delivery | balances read under the lock of one entry | a booking has the price it was offered; evidence is append-only; no overpayment |
| Commercial: booking file | finance, insurance, invoice, exchange, documents | create, decide, disburse, upload, complete, verify, evaluate | readiness for delivery | two completions of one upload; an evaluation that reads table by table | what is approved is what was scanned clean; readiness rests on evidence |
| Delivery (`delivery.service.ts`) | jobs, checklist, proofs, tracking sessions, locations | create ... complete, reschedule, sweep | reads readiness, writes unit and allocation | several transactions per request, unlocked stock rows | tracking only on the road; finished is final; what was delivered stays delivered |
| Mobile outbox and command() (`delivery-offline.ts`, `lead-outbox.ts`, `command`) | SQLite outbox, requests in flight, receipts | enqueue, send, replay, settle | phone to API | loss, delay, duplication, process death | at most one effect; success told only for an effect; every command settled |
| Location queue (mobile) and `locations` | SQLite samples, sessions, stored samples | capture, send a batch, delete, accept | delivery, test rides | rows added while a batch is under way, refusals of a whole batch | no sample lost while it is to be kept |
| Authentication on the server (`auth/`) | sessions, elevations, reset tokens, challenges, authenticators, recovery codes | login, rotate, switch, elevate, revoke, reset, deactivate | every request | rotation against revocation, triggers, checks apart from writes | nothing survives the session it hangs on; a factor serves once |
| Refresh tokens on the clients | secure store, memory, cookie | refresh, log in and out, retry, start | server's rotation | lost answers, kills, two tabs | reuse is reported only with a cause |
| Web session (`auth-provider.tsx`, `auth-api-client.ts`) | token, screen, query cache, calls under way | initialise, sign in, switch, elevate, expire, sign out | server sessions | answers that come back late | what ended stays ended; one context per cache |
| Messaging: dispatch (`messaging.service.ts`) | messages, status history, outbox, webhook events | compose, dispatch, retry, dead-letter, process a status | provider, job queue | lost answers, dead or slow workers, events repeated and out of order | one sender at a time; a second send has a known reason; an event counts once |
| Messaging: conversations | conversations, inbound messages, notes, handovers | receive, open, reply, note, assign, read | leads, dispatch | handlers that race to open, late messages | no message lost; free text only inside the window |
| Messaging: connections and permits | connections, templates, leases | configure, activate, verify, health, sync, send | provider, Redis | a provider awaited between read and write; Redis that fails | a connection in use is confirmed; sends within limits |
| Leads (`leads.service.ts`) | contacts, leads, SLA timers, duplicates, receipts | capture, assign, move, follow up, review, monitor | round robin over members | concurrent captures, monitor against people | lead and timer agree; rotation respects limits |
| Test rides (`test-rides.service.ts`) | rides, calendar, sessions, samples | request, book, assign, start, complete, expire | demo units of inventory | overlapping slots, stale list of the expiry | nothing booked twice; a ride holds its vehicle |
| Telephony (`telephony.service.ts`) | calls, events, outcomes, recordings | start, webhook, reconcile, record an outcome | provider is called first | early, late, repeated events | a call shows what its events say |
| Reminders (`reminders.service.ts`) | plans, reminders, outbox | materialise, scan, queue, dispatch, reschedule | messaging | scans against edits, retried jobs | what was handed over is not sent again |
| Registration (`registration.service.ts`) | cases, RC copies, customer vehicles | open, move, upload, review, share | delivery, reminders | a scan between read and write | what is handed over was scanned clean |
| Administration (`administration.service.ts`) | memberships, teams, lines, organisation, settings, hours, audit | invite, update, appoint, place, edit, replace hours | authorization | two administrators at once | an admin remains; the audit tells the story |
| Authorization and lists (`authorization-*.ts`) | none: scopes over rows | list, open, count | every service | one rule written three times | lists, details and figures agree |
| Reports (`reports.service.ts`) | export jobs, files | request, process, download | lists, job queue | scopes that change before the job runs, second workers | a file tells of nothing out of its requester's reach |
| Analytics (`analytics.service.ts`) | none: figures over rows | overview of a client, platform view of the agency | reads the rows of every service, in the client's time zone | many queries that end one after another while rows change; days of a zone whose clock is changed | cards, charts and compared figures agree and are of their days |
| Integration centre (`integrations.service.ts`) | provider connections, onboarding items, creative assets, transcript suggestions, audit events | connect, disconnect, tick, request, review | providers that generate and moderate assets | the audit event is a second statement outside any transaction | one decision stands; the audit tells of the row as it is |
| API infrastructure | none | policies, adapters, logging | - | - | - |
| Screens, shared packages | presentation, types | - | - | - | - |

The status of each in this project is in PROJECT.json (`components`).

## 2. What is modelled

A module stands for one component; its variables are the tables (and what a
request, worker or phone keeps in memory between two awaits), its actions the
transactions. What a transaction reads and writes under one lock is one action; a
rejected command leaves no trace and is no action. What is read before the lock
is an action of its own, and so is every awaited call between a read and a write.
`PROJECT.json` maps each definition to its lines.

**Inventory** - One action per command of `inventory.service.ts`. Four commands
(extend, releaseReservation, releaseAllocation, reallocate) read their row before
they lock its unit and never read it again: `ReadReservation`/`ReadAllocation`
record in `req` what was seen, and the second step compares the unit's version.
`ScanDue` selects candidates without a lock and `ExpireBatch` reads each again
under its unit's lock; a batch takes at most `BatchSize` rows and may abort.
`OpenBooking`/`CreateBooking` are the two halves of commercial's createBooking that
touch allocations. The unit's `blockedFrom` and the status of a transfer are the two facts the
code reads back from history rows. Catalogue, pricing and import parsing are left out.

**BookingLedger** - Quotations with their versions and approvals, bookings, payment
entries. The payment commands lock one payment entry and read the booking and the
other entries unlocked, so what they read is kept in `tx`. Amounts are integers in
minor units.

**BookingFile** - Finance, insurance, invoice, exchange, documents and the readiness
evaluation, which reads table after table (`desks`).

**Registration** - The case through the office's stages, its RC copies from upload to
handing over, and the vehicle recorded beside it.

**Handover** - The delivery job over `Stock == INSTANCE Inventory`: every inventory
command can run between the steps of a delivery command. start() is three steps,
complete() and reviewProof() two. The sweep of expired tracking works from a list.
A code that was verified is a proof like any other (`RecordProof`). OTP challenges,
settings and downloads are not modelled: they gate the same transitions or only read.

**ExactlyOnce, OfflineCommands** - `ExactlyOnce` is the promise of an idempotency
key: an effect at most once, and "done" told only of a command that had its effect,
as the last word. `OfflineCommands` is the code that keeps it: the outbox row,
replays by several screens that each work from the rows they selected, a network that
loses, delays and reorders, the receipt that commits with the effect, and a kill of
the app at any point. `Promise == INSTANCE ExactlyOnce WITH ...` is the refinement.

**Trail** - The location samples of one delivery from the phone's background task
through the queue and its replays to `locations` of the server.

**Messaging** - An outbound message from composing to its last status report. A
worker is a request handler or a queue worker; each statement or transaction of
`dispatchMessage` and of `processStoredWebhookEvent` is a step, and `Crash` can end it
between any two. There is no clock: leases, delays and windows may have run out
whenever they are looked at. `Projection` is the closed form of the loop in
`projectedDeliveryStatus`; `MessagingMC` asserts that the two agree on every history
of up to three rows.

**Conversations** - Inbound messages, the conversation they find or open, the service
window, notes, unread counts, the hand-over between owners and the pages of a thread. A
row has the time it was received at, in milliseconds (`ms`) and what the database keeps
below them (`us`), and an id that follows no order. Pages are cut by that time and the id,
while the cursor goes through a JavaScript date and keeps the milliseconds only
(messaging.service.ts:90-95 and 651-658, schema/messaging.ts:377). The history `met` of a
conversation notes the tries that had looked for it, and found none, when another opened it.

**Connections, Permits** - The provider connections with their credentials and
templates, around the calls to the provider that they await; and the four leases a
send holds, in its process and in Redis.

**Leads** - Capture with its receipt, contacts, rotation and duplicates, transitions,
follow-ups, the SLA monitor and the review of duplicates, with row locks held to the
end of a transaction and deadlocks that the database breaks.

**Calls, TestRides, Reminders** - Click to call with webhooks and reconciliation;
demo vehicles' calendars, executives' calendars, rides and the expiry; reminder plans,
their due scan, the outbox and its jobs. A demo vehicle is a reference that a unit may be
recorded for at any time, and the unit may be transferred to another branch while bookings
of it are held (`createUnitTx`, `UnitChanges`). A booking is linked to the unit, or
made of the reference alone where the unit had not been found; each booking locks and searches
one branch only, that of its ride.

**Sessions, Login, RefreshTokens, WebSession** - Four views of one sign-in. `Sessions`
are the rows of the server: opened, rotated, switched, elevated, revoked, reset, and
closed by the triggers of a deactivation, whose two statements are two steps. `Login`
is the way to a session: password or Google, enrolment, one-time step, recovery code.
`RefreshTokens` is the rotation against a phone (memory, secure store, jobs that are
chains of awaits) and two tabs with one cookie. `WebSession` is one tab: token,
screen, query cache, and calls whose answers come back late.

**Hierarchy, Tenancy** - Members, roles, teams and reporting lines; client, branches,
departments, teams, settings, flags, hours and the audit event of every command.

**Lists, Reports** - The policy for a row, its SQL mirror, the check after the query,
paging, and the figures of the dashboard, for twelve kinds of rows; exports with the
scope they noted, the queue with stalls and second workers, and the download.

**Analytics** - A report as the queries it is: the rows by kind and status, now and in
the period it is compared with, the leads by day and by source, the leads that ask for
attention, each a step that reads the rows as they are then. Time is in hours; a zone is
what its clock is ahead at an instant, the calendar and its months are constants.
`zoneStart` is the arithmetic of the service (UTC's midnight less the offset at that
instant), `dayOf` the database's `to_char ... at time zone`. What a row is to the member
is one Boolean here; Lists has the conditions.

**Integrations** - The rows of the integration centre by their status, each command a
statement and the audit event that follows it, with the death of a process between.

**MC modules** give the constants of the instances, their bounds and symmetry. As at
most twelve configurations are kept, the components that share no row are composed in
one module per area (`ProgressMC`, `OfficeMC`, `SaleMC`, `AccessMC`, `FieldMC`,
`InboxMC`): a variable `part` says which of them a behaviour is about, the others rest.
Interleaving two that neither read nor wait for each other would show nothing that
each does not show alone. `HandoverMC` composes what does interact: delivery and stock.

## 3. What is checked

| Run | Question | Instance | States |
|---|---|---|---|
| progress | do overdue holds end and commands settle, with holds extended in time and each command applied once? | 2 units, 2 holds, batch of 1, time 0..2; 1 command, 2 replays, 3 copies, 1 kill; fairness | 312k |
| office | do allocation, unit and booking agree; are connections confirmed, permits within limits, samples kept; do figures add up, are decisions audited? | 2 units, 2 bookings, 2 clients; 2 connections, 2 requests; 3 sends of 2 processes; 2 samples, 2 senders, 1 restart; 2 rows, 3 periods, 2 zones; 4 rows of the centre, 2 managers | 350k |
| delivery | does tracking agree with the road while stock commands and sweeps run beside? | 1 unit, 2 bookings, 2 allocations, 2 transfers, 1 caller, 1 sweeper | 571k |
| sale | prices, approvals, readiness, RC copies; lists and figures; exports | 1 quotation of 2 versions, 3 payments; 1 booking's file with 2 loans; 1 case, 2 copies; 3 rows of 12 kinds, 8 contexts; 1 export, 2 workers | 618k |
| access | sessions, factors, tokens, the tab, members, the organisation | 2 sessions, 2 elevations; 2 challenges, 2 authenticators; 2 phone sessions, 2 tabs; 2 sessions of a tab; 2 members; 4 nodes; 2 callers each | 986k |
| field | deadlines, rotation, calls, rides, reminders | 2 leads, 2 workers; 3 calls, 3 events; 2 rides, 2 demo vehicles, 2 branches; 2 schedules | 949k |
| messaging | one sender, explained repeats, status and events as the history has them; conversations, window, pages | 1 message, 2 workers, 1 event, 2 attempts; 3 inbound messages, 1 customer, 2 handlers, 2 agents, 3 instants of reception | 1.66M |
| inv_demo | *violation:* can a demo unit become saleable without authorization? | 1 unit, 1 transfer | - |
| ledger_overpay | *violation:* can more be verified than a booking costs? | 3 payments, 2 staff | - |
| offline_killed | *violation:* is every queued command settled although the app may be killed? | 1 command, 1 replay, 1 kill | - |
| handover_race | *violation:* can a delivered unit be allocated to another booking? | 1 unit, 2 bookings, 1 caller | - |
| inbound_lost | *violation:* is every message of a customer kept? | 3 messages, 2 handlers | - |

**Properties** (the full statement is the comment above each definition).

*Stock and sale.* `StockAgrees`: a unit is RESERVED, ALLOCATED or IN_TRANSFER
exactly when one open row says so (`StockConsistent`), and a linked active
allocation is of the unit its booking selected (`LinkedAllocationSelected`). `ExpiryRespectsExtension`: what expires
is overdue when it is written. `ExpiredEventuallyReleased`: every overdue hold ends.
`BookingsHonourOffers`: a booking has the price and the approval of the version it
names. `ApprovedPapersAreClean`, `CopiesHandedAreClean`: what is approved or handed over
is what the scanner found clean. `ReadyRestsOnEvidence`: what a readiness verdict
relied on stays. `TrackedOnTheRoad`: status, tracking flag and open session agree.

*Phone.* `KeepsPromise`: the refinement of ExactlyOnce. `SettledOrStranded`: in the end
a command is settled unless a kill stranded it. `TrailKept`: a sample is on the phone
or with the server while it is to be kept.

*Access.* `ElevationsEndWithSession`, `ResetEndsSessions`: nothing outlives what it
hangs on, but for the cases named. `FactorsServeOnce`, `EnrollmentStands`: no factor
lets two logins in and no enrolment displaces one in use. `ReuseExplained`: a session
ends for reuse only with a cause. `EndedStaysEnded`, `CacheOfOneContext`: the tab.
`AdminRemains`: a client keeps an active admin. `OrganisationAgrees`: each audit event of
a node replaces what the one before wrote (`AuditTellsTheStory`), and the hours of a
branch are those of one command (`HoursAreOneSchedule`).
`FiguresAgree`, `PagesComplete`: a dashboard counts what the list shows, and paging to
the end shows every row once. `FiguresAddUp`: the card, the chart and the sources of one
report count the same leads, every figure counts the rows of its days by the clock of the
zone, and no row is in two periods, but for rows that changed meanwhile and periods that
end at a change of the clock. `CentreIsAudited`: an asset or suggestion is decided once, and
the last event tells of the row as it is. `ExportsStayInScope`: a file tells of nothing that was
out of its requester's reach.

*Customers.* `DeadlineAgrees`: lead and timer agree, MET is not taken back.
`RotationRespectsLimit`: nobody is given more than the maximum. `CallShowsEvents`: a
call is what its events and outcomes say. `NothingBookedTwice`: held bookings of a demo
vehicle overlap in one branch only if exactly one of them is linked to the unit, in two
branches only if one of two linked ones was held while the unit was transferred (or one is
not linked); an executive has one ride at a time in a branch. `RideHoldsItsVehicle`: the
vehicle is held from booking to end. `SentStands`: what was handed over is not sent again.

*Messages.* `SendersAlone`, `SecondSendExplained`, `StatusIsProjection`,
`EventsRecordedOnce`, `TextRestsOnInbound`, `UsedWhenConfirmed`, `PermitsWithinLimit`.
`LostOnlyAtOpening`: no message is there twice, and a new one passes for a duplicate only if
the very try that passed it had found no conversation before another try opened it.
`ThreadReadToTheEnd`: who has paged to the beginning has seen every message there was, but
for rows that a cursor skipped: received in its millisecond, before the cursor's row.

Each property of a passing run has a mutant in PROJECT.json: one mapped definition
replaced by a plausible bug (the `Faulty...` operators and their like), under which TLC
finds the property violated.

**Bounds.** Every bound is a named constant of the module it bounds or a named
constraint of an MC module. `MaxVersion` stops commands (never the monitor, which ignores it) once
a unit has reached a version: 5 is enough for a unit to be held, freed and held
again while a client keeps what it read of the first hold. Row ids are used once; a
second row of each kind is what a stale id needs to meet a newer one. `BatchSize` 1
with two units makes a backlog larger than a batch. `MaxOffer` 2 lets a booking
name an old version. `MaxCopies` 3 is a direct request and one of each replay;
`MaxEffects` 2 makes a double effect visible rather than impossible.
`MaxJobVersion` 6 reaches the road, leaves it and completes. In Messaging,
`Stamp` 0..2 are times of the provider before, at and after the instant of our clock,
`MaxAttempts` 2 has a retry and a dead letter and `MaxClaims` 2 a claim that is taken
over. In RefreshTokens `MaxSequence` 3 has a token older than the one before,
`MaxFaults` 1 one lost answer or kill. `MaxTroubles` 1 of WebSession is one lost answer,
lapsed token or elevation. `MaxStamp` 5 of Tenancy lets both registrars write twice.

The constraints of the MC modules keep stories apart that do not need each other, and
say so where they stand: a unit is reserved beside the allocations of one branch or
transferred (`InventoryMC!Bounds`); a unit moves or is handed over
(`HandoverMC!Bounds`); passwords are reset where nothing is deactivated
(`SessionsBound`); a Google challenge is open or a code is checked (`LoginBound`); one
of two calls of a tab is a command (`WebBound`); one of two members is suspended, and
reporting lines are set where there is no team work (`MembersBound`); a lead is moved,
reviewed or followed up (`LeadsBound`); handlers race, agents hand over or agents read,
and rows are received at different instants where nothing else goes on
(`ConversationsBound`); one demo vehicle has a unit, and where it has one rides go no further than
their booking (`RidesBound`); Redis fails once (`PermitsBound`); the queries of a report on rows
of two kinds end in one order (`FiguresBound`); one row of the integration centre is there
(`CentreBound`). In Analytics a day has three hours and a month two days, so that a period
of days, its neighbour and a change of the clock fit in sixteen hours. The theorems of section 5
have none of these bounds. Runs do not look for deadlock because an instance ends when
its ids, versions or time are spent; symmetry is over callers and row ids that nothing
orders, and never where a liveness property is checked.

**Fairness** is assumed in one passing run (progress) and in offline_killed.
`MonitorFairness`: every API process arms a timer at bootstrap, so a scan that stays
possible is made (WF), and a transaction that is aborted again and again does commit at
last (SF: an abort makes it impossible until the next scan). `ReplayFairness`: users
press replay again, a running replay goes on, requests travel and transactions end;
`CalmInTheEnd` adds that from some time on the connection holds and the server accepts
or answers 409, without which nothing can be promised. In ProgressMC the fairness of
the part that rests asks for nothing, as none of its actions is possible. No fairness
is assumed of clients, staff or of sweeps that run at page loads.

## 4. Findings

- **A demo vehicle becomes saleable without authorization** (`inv_demo`). UNBLOCK
  goes back to DEMO only if the newest history row that enters BLOCKED came from
  DEMO. DEMO, BLOCK, transfer while BLOCKED, end of the transfer: the newest row
  came from IN_TRANSFER, and UNBLOCK makes the unit AVAILABLE.
- **Overpayment** (`ledger_overpay`). verifyPayment locks the entry, not the
  booking: two verifications each see the balance without the other.
- **A row stays REPLAYING** (`offline_killed`). A kill between marking and
  settling leaves a row that no replay selects.
- **One unit, two bookings** (`handover_race`). complete() holds the job's lock
  only; a release and an allocation to another booking between its reads and its
  writes are overwritten.
- **A customer's message is lost** (`inbound_lost`). Two first messages of one
  customer are processed at once; the second insert of a conversation meets the unique
  index, and every unique violation counts as a delivery processed before.

## 5. What is proved

TLAPS checks the following for every value of the constants that satisfies the named
assumptions of the modules: disjoint id sets, NULL outside them, bounds that are
naturals, finite sets where something is counted. Each assumption is evaluated by TLC
on the instance of the run that extends its module. Every safety theorem is by an
inductive invariant that contains the type invariant; the instances of TLC checked the
invariant before it was proved. A component is proved from its own specification
(`SessSpec`, `LoginSpec`, ...), which the composed run restricts to one `part`.

**Inventory** (`InventoryProofs`): `TypeCorrect`, `StockIsConsistent`,
`StaleReadsAreRejected`, `EndedRowsAreFinal`, `ExtensionsAreRespected`,
`HoldsAreHonoured`, `LinksAgree`, `StockTellsOneStory`. `StockConsistent` alone is not inductive: a
release by id is harmless only because the version check proves that the row is
still live. So `IInv` adds `StaleReadsRejected`, and for it `RowsPlaced` (rows name
existing units) and `ReadsPlaced` (a client saw a version no newer than the
unit's). The central lemma, `ReadsSurvive`, says why the design works: if every
writer of a hold also moves its unit's version (`WritesCounted`), what a client has
read stays safe to act on. createBooking, which writes allocations without a version,
is safe because it writes neither status nor unit. `LinksAgree` needs `OpeningPlaced`
besides, `ExtensionsAreRespected` that batches were captured in the past (`BatchesPast`).

**BookingLedger** (`BookingLedgerProofs`): `TypeCorrect`, `OffersAreHonoured`,
`QuotesAreCurrent`, `ReversalsAreBacked`, `EvidenceIsKept`. The invariant falls into a
quotation half and a money half; the money half says that a locked entry is still
undecided, which is what the lock is for.

**Handover and OfflineCommands** (`DeliveryProofs`): `TrackingEndsWithTheRoad`,
`FinishedIsFinal`, `OutboxTyped` and `PromiseIsKept`, the refinement. `JobInv` says of
an open start or completion that its job still has the status it was checked for and
that no other transaction holds it (`TxPlaced`), and of a sweep that a job which
still has the version it read is on the road (`SweepsPlaced`). `OutboxInv` says
that a receipt stands for exactly one effect, a success on its way back has a receipt,
and at most one copy is inside its transaction (`ReceiptsCount`); who awaits an
answer has sent something (`AnswersPlaced`); a DONE row has a receipt
(`DoneIsApplied`). Every step then maps to TakeEffect, to Tell or to a stutter.

**Messaging** (`MessagingProofs`): `TypeCorrect`, `SendersNeverOverlap`,
`SecondSendsExplained`, `EventsOnce`, `VerdictsStand`. `SendInv` says that a worker
that is sending, with no person having asked, has its row in PROCESSING or
DEAD_LETTER, which no claim accepts, and that a message the provider has without a
reason for a second send is with it once. `EventInv` says that workers on one event
have different attempts, that one at most is inside its transaction, and that no worker
on a settled event has its last attempt.
`StatusFollowsHistory`: by `ShownInv` the provider's id of a message is written once and
ends what is sent on its own (`SentOnce`); until then its history has our own rows only
(`OursOnly`); and a transaction that has projected a history shows what the history says
with its row, as long as nobody has added to it (`ReadsStand`). Whoever adds to a history
another one has read marks the message OVERLAP. What is left is arithmetic of the
projection: a row stamped no earlier than the others decides it, which is why the theorem,
like the property, is of messages no row of which is ahead of our clock (`Punctual`).

**Conversations** (also `MessagingProofs`): `InboundExplained`, `TextExplained`,
`ThreadSeenWhole`, `OwnersChain`. `ConvInv` has four parts. `DeskInv`: a handler
that has yet to open a conversation that is there by now is one of the tries its opening
met (`Passed`), one that met the unique index has its message or is such a try (`Excused`),
and what a receipt says of its message is so of the try it names; a try once met stays met, and
ids of rows are apart because an id is used once. `WindowInv`: the last inbound time of a
conversation is that of one of its rows, so that an open window rests on a message.
`ReadInv`: every row up to the first one of a thread has been shown, is older than the
cursor, or was skipped by one of the cursors. A page is the newest rows past the cursor
in the total order of received time and id (`OlderOrder`, `PageShape`). `RowsAssumption`
says that an instant is two naturals and a message's id is a natural; which is larger
is left open. `OwnersInv`: a request whose version
still stands has read the owner there is.

**Connections, Permits, Trail, Analytics, Integrations** (`OfficeProofs`): types and
`ConnectionsAreConfirmed`, `SendsWithinLimits`, `TrailIsKept`, `FiguresAgreeThroughout`,
`CentreAudited`. Of a connection: what makes a request write that it
is in use was read of credentials that are confirmed, or the connection has been
configured since. Of permits: a send that Redis granted a permit is in the sorted set
until its lease ends or it gives the permit back, so the cardinality of the set bounds
the senders. Of the trail: a replay deletes only what it selected, or what was exposed
while it was under way. Of a report: what a query found of a row that has not changed
since is what it would find now, and what it found of a row whose date cannot be moved is in
its period still; days begin in their order (`DaysInOrder`), and where the clock does not
change between the two midnights a row's day has begun exactly when the period's has
(`DayBegins`), for every calendar and every clock that is moved by an hour at most in an
hour. Of the integration centre: one of a row's events and untold decisions is a decision,
and where nobody overtook or died one request at most has not told of its row.

**BookingFile, Registration, Lists, Reports** (`SaleProofs`): types and
`HandedAreClean`, `ApprovalsFollowScans`, `ReadinessIsLasting`, `MirrorsPolicy`,
`FiguresAreOfTheLists`, `PagesAreComplete`, `ExportsAreScoped`. `MirrorsPolicy` compares the SQL
condition with the policy for every context, a manager's included, and every row, placed or not,
with or without an owner and an assignee. They agree unless they have different rules for
the row's team (`TeamsDiffer`) or the list lacks the column of the assignment scope
(`ColumnMissing`); in these cases never both accept, and where the policy alone does, the
caller is a manager without a team scope who manages the row's team. The registration invariant ties the document
that a completion read to the one it writes through the case's version; the reports
invariant follows what a worker has read of the leads to the file it stores, against
the ghost of what the noted scope has reached since. `PagesAreComplete` rests on what a
filter of a sequence is: the places it takes, in ascending order (`Ascending`, `Taken`),
each of them once. `PagesInv` says that the order of a list has each row once and that,
while nothing changes and what is selected may be opened, the pages read so far show
exactly the first rows selected (`ReadSoFar`), with another page to come as long as there
are more rows than pages read; where nothing may be opened, nothing has been shown.

**TestRides, Reminders, Leads, Calls** (`FieldProofs`):

- *TestRides*: `BookedOnce`, `HoldsItsVehicle`. What a worker under the lock of a vehicle's
  reference or of an executive in a branch looked for, by unit or by reference, has stayed absent; a held
  linked booking in another branch than its unit's is one whose unit has been moved (`stranded`);
  the invariant also carries versions, so that a stale write is one that fails.
- *Reminders*: `HandedStands`. A worker that has claimed a reminder holds it alone
  (`HoldersAlone`), and no row is ahead of its plan (`RowsBehind`), so that a later plan
  or a second job finds what was handed over and leaves it.
- *Leads*: `DeadlineHolds`, `LimitHolds`. `LeadLocks` says that two open transactions hold
  different rows, `LeadTasksStand` what of their reads these locks keep true: a timer that
  the monitor claimed is not completed before the monitor commits, and whoever counted a
  member's leads and holds the queue is the only one who adds to them by rotation.
- *Calls*: `EventsShown`. A call that no other request wrote over in between is what its
  handler read, and the handler applies the events it knows of (`CallTasksKnow`).

**Access** (`AccessProofs`), six parts:

- *Sessions*: `ElevationsHaveSessions`, `ResetsEndSessions`. `ClosingPlaced` says what a
  trigger has updated is as it was when it looked, and but for the account's it has
  found every elevation under its subject, since the rows a new one needs are locked.
- *Login*: `FactorsServeOneLogin`, `EnrollmentsStand`. A factor is spent before its
  session is granted (`Spent`, `GrantsPlaced`), there is one current authenticator
  (`OneCurrent`), and unused codes are counted through replacement (`CodesCounted`).
- *RefreshTokens*: `ReuseHasACause`. No job of the phone, vault or memory has a token
  newer than the server's, and what is older has been superseded by a save
  (`PhonePlaced`, `TabsPlaced`); a request whose caller gave up excuses its session.
- *WebSession*: `CacheIsOfOneContext`, `EndedSessionsStayEnded`. Every call under way is
  answered, or to be answered, in a context of its session; the cache is of one; a call
  from before an end is recognised as late (`LateIsStale`).
- *Hierarchy*: `AnAdminRemains`. No update is of a row that is not there, and the lock
  of the role is what makes the count of admins last to the write.
- *Tenancy*: `AuditsTellTheStory`, `HoursStayOneSchedule`, `OrganisationStaysOne`. A registrar who edits a node
  holds its row, so that what it read is what it replaces.

One correction of a model came out of a proof: an expiry that is reported to the web tab
while a sign-in is under way is suppressed (auth-provider.tsx, expireSession), which
leaves what was shown beside it; `CacheOfOneContext` could not be proved without it.

**Only model-checked.** Liveness (`ExpiredEventuallyReleased`, `SettledOrStranded`):
TLAPS does not reason about fairness here. Every other property of a passing run is a
theorem. The invariants that the violation runs refute are not theorems.

## 6. Where the code falls short of its documents

These were met while modelling. The five of section 4 are runs; the models reach the
others too, and the properties name them as exceptions or leave them out. Paths are
below `src/apps/api/src` unless they say otherwise.

*Stock and sale.* cancelBooking commits without a settlement note although a payment is
verified beside it (commercial.service.ts, cancelBooking). Two reviews of one RC copy both
decide, and the second may reject a copy already shared (registration.service.ts:807). The
outbox goes on with later commands of a job after one failed
(`src/apps/mobile/src/data/delivery-offline.ts:157`), against "replays in order"
(MOBILE_RELEASE.md:45). start() does not lock the executive's other jobs
(delivery.service.ts:700): two starts at once give one executive two jobs on the road.
A failed OTP attempt is counted in a transaction that the failure rolls back
(delivery.service.ts:1178-1184).

*The location queue.* After a batch is answered the replay deletes the job's rows by job
only, also those that arrived meanwhile; a kill leaves rows REPLAYING; a batch with one
sample older than the session is refused whole (delivery.service.ts:793). ADR-0040
(DECISIONS.md:81-82) rejects lost evidence.

*Leads.* Two captures of one phone create two contacts (leads.service.ts, the contact is
looked up without a lock) against DECISIONS.md:271; resolveDuplicate overwrites a
concurrent review (:1409); a reassignment moves the owner of the lead and not of its
conversation (:1037).

*Test rides.* A transfer of a DEMO unit starts, and ends in another branch as DEMO, without a
look at held ride bookings (inventory/inventory.service.ts:1080, 1199-1202), while a booking
locks and searches the branch of its ride (test-rides/test-rides.service.ts:425-445): two
linked bookings of one unit may overlap. A linked ride looks for bookings of its unit, another for those of its reference
(test-rides/test-rides.service.ts:438). Recording a unit links the rides and bookings there are
(inventory/inventory.service.ts:1281-1303), and not one that was read or looked up before and is
written after: its booking and a linked one may overlap in one branch. `NothingBookedTwice`
excepts both.

*Messages.* A message whose answer is lost is sent again by the next automatic try,
although ADR-0056 is headed "ambiguous provider acceptance is not retried blindly"
(DECISIONS.md:1012): only a claim whose worker died is dead-lettered. Two transactions
that add to one status history side by side can leave a status that is not its
projection (`StatusIsProjection` excepts them as OVERLAP). A provider whose clock is ahead
of ours stamps a row later than the one we add next, and the projection then ignores ours,
though the message's status shows it (`Punctual` excepts such messages). A late message moves
lastInboundAt back. markRead counts messages as read that arrived after the page. The cursor of a thread
keeps milliseconds of a time that has microseconds (:90-95, 651-658): rows of the cursor's
millisecond before its row are on no page, but for those that lie on the millisecond itself and
have a smaller id. A
page of the cursor repeats a row whose time changed (ANALYTICS_ADDON_PRD.md:78 asks for
stable cursors; the web does not deduplicate). The automated reminder's message is queued
and nobody dispatches it (messaging.service.ts:823). assign() reads the previous owner
outside its transaction (:1107). Templates the provider no longer lists keep APPROVED.

*Connections* (messaging.service.ts). Activation, verification and health write a row by
id that may have been configured anew since they read it: "Verify the official provider
callback before activating this connection." (:411) does not hold for the credentials
the row then has, and a health check marks the new ones DEGRADED.

*Access.* A hosted session that was closed is opened again by a request that had passed
its check (auth/drizzle-auth.store.ts:1284). The phone's retrySession may load an old
session after a logout (`src/apps/mobile/src/auth/mobile-auth-manager.ts:231`). In the
web tab: a query with the old token during a switch is answered SESSION_REVOKED and
expires the tab, and the switch's answer then sets a session under status "expired"; a
profile that fails to load after a switch leaves the old context over the new token
(ADR-0038, DECISIONS.md:107-118); a late refresh overwrites the token of a newer sign-in;
a logout whose request fails keeps the cookie; and an expiry reported while a sign-in is
under way is suppressed, so that a session a retried initialisation brought back stays
shown (`src/apps/web/src/features/auth/auth-provider.tsx:117`).

*Administration.* Two reporting lines close a cycle that neither check saw
(administration.service.ts:1372). Settings, flags and defaults are written without a
lock: an update is lost, and two audit events tell of the same `before` (:1442). A team
may be created under a branch deactivated meanwhile. Seeding again overwrites the
status of memberships, leads, quotations and the unit of bookings
(`src/packages/database/src/seed.ts`).

*Reminders.* Of two materialisations at once the later cancels the reminders of the newer
schedule (reminders.service.ts:472); the scan works from a list (:927).

*Lists and reports.* Rows are checked after the page is cut, so a page may be short while
more follow (leads.service.ts:596-600 and DECISIONS.md:1085); stock and booking lists are
empty for roles whose details open; an executive's ride list loses rides with a team;
dashboards count stock that a manager's list leaves out, and leads for a scope without
teams. The bounds of a period are UTC's midnights moved by the offset of the client's clock
at those instants (analytics/analytics.service.ts:128), which is an hour off where the clock
is changed between UTC's midnight and the client's: that hour's rows are in the figures of
the wrong day and, on the chart of the platform, in no column. The queries of a report are
statements of their own (:243), and rows that change between them are in one figure and not
in another. The integration centre writes its audit events outside the transaction of the
command (integrations/integrations.service.ts:97); a process that dies in between leaves a
change nobody is told of. Nothing in the repository moves a creative asset to
REVIEW_PENDING, the only status that can be reviewed (:251). Reports count a lead by its owner's teams and not by its own. An export may be
written FAILED or PROCESSING over COMPLETED by a slower worker, stays QUEUED after a crash
before it was enqueued and PROCESSING after its last stall, and EXPIRED is never set.

## 7. Plan

Done: the components of section 2, with the theorems of section 5. Left:
`DeliveredStaysDelivered` of Handover, which needs IInv of Inventory carried over the
composition, weakened where complete() breaks it.

**Not modelled**: the one-time codes of test rides and deliveries; budgets per minute;
access to media; the provider connection and recordings of telephony; settings that only
refuse; the location queue of test rides, the twin of Trail; the hosted provider's own
sessions in the web client; configuration and logging; the layout of
exported files; presentation.
