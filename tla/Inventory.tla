----------------------------- MODULE Inventory -----------------------------
(***************************************************************************)
(* Physical vehicle stock: apps/api/src/inventory/inventory.service.ts and *)
(* the reservation monitor beside it, with the two commands of             *)
(* apps/api/src/commercial/commercial.service.ts that write the rows that  *)
(* stock and bookings share.                                               *)
(*                                                                         *)
(* Rows live in PostgreSQL at READ COMMITTED.  A command runs in one       *)
(* transaction that takes SELECT ... FOR UPDATE on the unit row, compares  *)
(* the caller's expected_version with the locked row, and rolls back on    *)
(* any rejection.  Everything after the lock is therefore one action; a    *)
(* rejected command leaves no trace and is not an action at all.  What is  *)
(* read before the lock is a step of its own, because nothing protects it. *)
(*                                                                         *)
(* One tenant.  The tables' row ids are the sets Rsv, Alloc and Xfer; a    *)
(* row not inserted yet has status "NONE" ("ABSENT" for a unit).           *)
(***************************************************************************)
EXTENDS Integers, FiniteSets

CONSTANTS
    Unit, Branch,      \* physical units and the tenant's branches
    Booking,           \* booking references
    Rsv, Alloc, Xfer,  \* ids of reservation, allocation and transfer rows
    Client,            \* API callers that read a row before they lock
    Worker, Monitor,   \* callers of expireReservationsTx; Monitor is the subset
                       \* that runs from the 60-second timer, for every branch
    None,              \* SQL NULL
    BookingBilling,    \* the values the BOOKING_BILLING module flag may take
    BatchSize,         \* the LIMIT of one expiry transaction (500 in the code)
    MaxVersion,        \* bound: commands stop when a unit reaches this version
    MaxTime            \* bound: last value of the clock and of a deadline

ASSUME ConstantsAssumption ==
    /\ Rsv \cap Alloc = {}
    /\ None \notin Unit \cup Branch \cup Booking \cup Rsv \cup Alloc
    /\ Monitor \subseteq Worker
    /\ BookingBilling \subseteq BOOLEAN
    /\ BatchSize \in Nat \ {0}
    /\ MaxVersion \in Nat
    /\ MaxTime \in Nat

VARIABLES
    unit,     \* inventory_units, with two facts read back from its history
    rsv,      \* inventory_reservations
    alloc,    \* inventory_allocations
    xfer,     \* inventory_transfers with the terminal event of each
    booking,  \* bookings
    now,      \* the database's and the processes' clock
    req,      \* per client: the row read before the lock
    batch     \* per worker: the candidates of an open expiry transaction

vars == <<unit, rsv, alloc, xfer, booking, now, req, batch>>

-----------------------------------------------------------------------------
UnitStatus == {"ABSENT", "EXPECTED", "AVAILABLE", "DEMO", "BLOCKED", "RESERVED",
               "ALLOCATED", "IN_TRANSFER", "DELIVERED", "CANCELLED", "REMOVED"}
RsvStatus == {"NONE", "ACTIVE", "CONVERTED", "RELEASED", "EXPIRED"}
AllocStatus == {"NONE", "ACTIVE", "RELEASED", "REPLACED", "DELIVERED"}
XferStatus == {"NONE", "OPEN", "COMPLETED", "CANCELLED"}
BookingStatus == {"NONE", "OPENING", "CONFIRMED", "CANCELLED"}
MovableStatus == {"AVAILABLE", "DEMO", "BLOCKED"}

Idle == [row |-> None, seen |-> 0, expires |-> 0]
NoBatch == [rows |-> {}, at |-> 0, scope |-> {}]
NoBooking == [status |-> "NONE", branch |-> None, selected |-> None, found |-> None]

UnitRow == [status : UnitStatus, branch : Branch \cup {None}, version : Nat,
            blockedFrom : UnitStatus, demo : BOOLEAN]
RsvRow == [status : RsvStatus, unit : Unit \cup {None}, ref : Booking \cup {None},
           expires : 0..MaxTime]
AllocRow == [status : AllocStatus, unit : Unit \cup {None}, ref : Booking \cup {None},
             linked : BOOLEAN]
XferRow == [status : XferStatus, unit : Unit \cup {None}, prior : UnitStatus,
            to : Branch \cup {None}]
BookingRow == [status : BookingStatus, branch : Branch \cup {None},
               selected : Unit \cup {None}, found : Alloc \cup {None}]
Request == [row : Rsv \cup Alloc \cup {None}, seen : Nat, expires : 0..MaxTime]
Candidates == [rows : SUBSET Rsv, at : 0..MaxTime, scope : SUBSET Branch]

TypeOK ==
    /\ unit \in [Unit -> UnitRow]
    /\ rsv \in [Rsv -> RsvRow]
    /\ alloc \in [Alloc -> AllocRow]
    /\ xfer \in [Xfer -> XferRow]
    /\ booking \in [Booking -> BookingRow]
    /\ now \in 0..MaxTime
    /\ req \in [Client -> Request]
    /\ batch \in [Worker -> Candidates]

Init ==
    /\ unit = [u \in Unit |-> [status |-> "ABSENT", branch |-> None, version |-> 0,
                               blockedFrom |-> "ABSENT", demo |-> FALSE]]
    /\ rsv = [r \in Rsv |-> [status |-> "NONE", unit |-> None, ref |-> None, expires |-> 0]]
    /\ alloc = [a \in Alloc |-> [status |-> "NONE", unit |-> None, ref |-> None,
                                 linked |-> FALSE]]
    /\ xfer = [x \in Xfer |-> [status |-> "NONE", unit |-> None, prior |-> "ABSENT",
                               to |-> None]]
    /\ booking = [k \in Booking |-> NoBooking]
    /\ now = 0
    /\ req = [c \in Client |-> Idle]
    /\ batch = [w \in Worker |-> NoBatch]

-----------------------------------------------------------------------------
(* updateUnit and recordTransition: the new status, the next version, and  *)
(* the from_status of the newest history row that enters BLOCKED.          *)
Moved(u, s) ==
    [unit[u] EXCEPT !.status = s,
                    !.version = unit[u].version + 1,
                    !.blockedFrom = IF s = "BLOCKED" THEN unit[u].status
                                                     ELSE unit[u].blockedFrom]

(* lockAndGetUnit, assertVersion and assertStatus of a command whose caller *)
(* names the unit itself: nothing was read before the lock, so a stale      *)
(* expected_version can only reject.                                        *)
Ready(u, statuses) == unit[u].status \in statuses /\ unit[u].version < MaxVersion

(* The partial unique indexes on ACTIVE rows. *)
ReservedBy(r, u) == rsv[r].status = "ACTIVE" /\ rsv[r].unit = u
AllocatedBy(a, u) == alloc[a].status = "ACTIVE" /\ alloc[a].unit = u
AllocatedFor(a, k) == alloc[a].status = "ACTIVE" /\ alloc[a].ref = k
OpenTransferOf(x, u) == xfer[x].status = "OPEN" /\ xfer[x].unit = u

-----------------------------------------------------------------------------
(* createUnitTx, also the body of importUnits. *)
CreateUnit(u, b, s) ==
    /\ unit[u].status = "ABSENT"
    /\ s \in {"EXPECTED", "AVAILABLE", "DEMO"}
    /\ unit' = [unit EXCEPT ![u] = [status |-> s, branch |-> b, version |-> 1,
                                    blockedFrom |-> "ABSENT", demo |-> s = "DEMO"]]
    /\ UNCHANGED <<rsv, alloc, xfer, booking, now, req, batch>>

(* The actions of transition() that touch the unit row only. *)
Receive(u) ==
    /\ Ready(u, {"EXPECTED"})
    /\ unit' = [unit EXCEPT ![u] = Moved(u, "AVAILABLE")]

DesignateDemo(u) ==
    /\ Ready(u, {"AVAILABLE"})
    /\ unit' = [unit EXCEPT ![u] = [Moved(u, "DEMO") EXCEPT !.demo = TRUE]]

AuthorizeDemoSale(u) ==
    /\ Ready(u, {"DEMO"})
    /\ unit' = [unit EXCEPT ![u] = [Moved(u, "AVAILABLE") EXCEPT !.demo = FALSE]]

Block(u) ==
    /\ Ready(u, {"AVAILABLE", "DEMO"})
    /\ unit' = [unit EXCEPT ![u] = Moved(u, "BLOCKED")]

(* UNBLOCK goes back to DEMO only when the newest history row that entered *)
(* BLOCKED came from DEMO.                                                 *)
Unblock(u) ==
    /\ Ready(u, {"BLOCKED"})
    /\ unit' = [unit EXCEPT ![u] =
                  Moved(u, IF unit[u].blockedFrom = "DEMO" THEN "DEMO" ELSE "AVAILABLE")]

CancelUnit(u) ==
    /\ Ready(u, {"EXPECTED", "AVAILABLE", "DEMO", "BLOCKED"})
    /\ unit' = [unit EXCEPT ![u] = Moved(u, "CANCELLED")]

RemoveUnit(u) ==
    /\ Ready(u, {"EXPECTED", "AVAILABLE", "DEMO", "BLOCKED", "CANCELLED"})
    /\ unit' = [unit EXCEPT ![u] = Moved(u, "REMOVED")]

Transition(u) ==
    /\ \/ Receive(u) \/ DesignateDemo(u) \/ AuthorizeDemoSale(u)
       \/ Block(u) \/ Unblock(u) \/ CancelUnit(u) \/ RemoveUnit(u)
    /\ UNCHANGED <<rsv, alloc, xfer, booking, now, req, batch>>

(* DELIVER also ends the unit's active allocation. *)
Deliver(u, a) ==
    /\ Ready(u, {"ALLOCATED"})
    /\ AllocatedBy(a, u)
    /\ alloc' = [alloc EXCEPT ![a].status = "DELIVERED"]
    /\ unit' = [unit EXCEPT ![u] = Moved(u, "DELIVERED")]
    /\ UNCHANGED <<rsv, xfer, booking, now, req, batch>>

-----------------------------------------------------------------------------
Reserve(u, r, ref, e) ==
    /\ Ready(u, {"AVAILABLE"})
    /\ rsv[r].status = "NONE"
    /\ e > now
    /\ ~ \E q \in Rsv : ReservedBy(q, u)
    /\ rsv' = [rsv EXCEPT ![r] = [status |-> "ACTIVE", unit |-> u, ref |-> ref,
                                  expires |-> e]]
    /\ unit' = [unit EXCEPT ![u] = Moved(u, "RESERVED")]
    /\ UNCHANGED <<alloc, xfer, booking, now, req, batch>>

(* extendReservation, releaseReservation, releaseAllocation and reallocate *)
(* read their row before they lock its unit and never read it again.  The  *)
(* caller's expected_version was seen no later than the row; versions only *)
(* grow, so a command can pass assertVersion only if both were current     *)
(* together, and one step reads both.  A row that is not ACTIVE when it is *)
(* read is rejected whatever happens next.                                 *)
ReadReservation(c, r) ==
    /\ req[c] = Idle
    /\ rsv[r].status = "ACTIVE"
    /\ req' = [req EXCEPT ![c] = [row |-> r, seen |-> unit[rsv[r].unit].version,
                                  expires |-> rsv[r].expires]]
    /\ UNCHANGED <<unit, rsv, alloc, xfer, booking, now, batch>>

ReadAllocation(c, a) ==
    /\ req[c] = Idle
    /\ alloc[a].status = "ACTIVE"
    /\ req' = [req EXCEPT ![c] = [row |-> a, seen |-> unit[alloc[a].unit].version,
                                  expires |-> 0]]
    /\ UNCHANGED <<unit, rsv, alloc, xfer, booking, now, batch>>

(* A rejection, a lost connection or a crash rolls the transaction back. *)
Abandon(c) ==
    /\ req[c] # Idle
    /\ req' = [req EXCEPT ![c] = Idle]
    /\ UNCHANGED <<unit, rsv, alloc, xfer, booking, now, batch>>

(* Faulty: the expected version is not compared. *)
AnyVersion(c, u) == TRUE

(* assertVersion on the locked unit u of the row that c read. *)
VersionUnchanged(c, u) == unit[u].version = req[c].seen

ExtendReservation(c, r, e) ==
    LET u == rsv[r].unit IN
    /\ req[c].row = r
    /\ VersionUnchanged(c, u)
    /\ Ready(u, {"RESERVED"})
    /\ e > req[c].expires /\ e > now
    /\ rsv' = [rsv EXCEPT ![r].expires = e]
    /\ unit' = [unit EXCEPT ![u] = Moved(u, "RESERVED")]
    /\ req' = [req EXCEPT ![c] = Idle]
    /\ UNCHANGED <<alloc, xfer, booking, now, batch>>

ReleaseReservation(c, r) ==
    LET u == rsv[r].unit IN
    /\ req[c].row = r
    /\ VersionUnchanged(c, u)
    /\ Ready(u, {"RESERVED"})
    /\ rsv' = [rsv EXCEPT ![r].status = "RELEASED"]
    /\ unit' = [unit EXCEPT ![u] = Moved(u, "AVAILABLE")]
    /\ req' = [req EXCEPT ![c] = Idle]
    /\ UNCHANGED <<alloc, xfer, booking, now, batch>>

ReleaseAllocation(c, a) ==
    LET u == alloc[a].unit IN
    /\ req[c].row = a
    /\ VersionUnchanged(c, u)
    /\ Ready(u, {"ALLOCATED"})
    /\ alloc' = [alloc EXCEPT ![a].status = "RELEASED"]
    /\ unit' = [unit EXCEPT ![u] = Moved(u, "AVAILABLE")]
    /\ req' = [req EXCEPT ![c] = Idle]
    /\ UNCHANGED <<rsv, xfer, booking, now, batch>>

(* Faulty: the replacement inherits the bookingId of the row it replaces. *)
ReallocateLinked(c, a, to, n) ==
    LET from == alloc[a].unit IN
    /\ req[c].row = a
    /\ to # from
    /\ VersionUnchanged(c, from)
    /\ Ready(from, {"ALLOCATED"}) /\ Ready(to, {"AVAILABLE"})
    /\ alloc[n].status = "NONE"
    /\ alloc' = [alloc EXCEPT ![a].status = "REPLACED",
                              ![n] = [alloc[a] EXCEPT !.unit = to]]
    /\ unit' = [unit EXCEPT ![from] = Moved(from, "AVAILABLE"),
                            ![to] = Moved(to, "ALLOCATED")]
    /\ req' = [req EXCEPT ![c] = Idle]
    /\ UNCHANGED <<rsv, xfer, booking, now, batch>>

(* The replacement row n keeps the reference and carries no bookingId; the *)
(* booking row is not written.                                             *)
Reallocate(c, a, to, n) ==
    LET from == alloc[a].unit IN
    /\ req[c].row = a
    /\ to # from
    /\ VersionUnchanged(c, from)
    /\ Ready(from, {"ALLOCATED"}) /\ Ready(to, {"AVAILABLE"})
    /\ alloc[n].status = "NONE"
    /\ ~ \E o \in Alloc \ {a} : AllocatedBy(o, to) \/ AllocatedFor(o, alloc[a].ref)
    /\ alloc' = [alloc EXCEPT ![a].status = "REPLACED",
                              ![n] = [status |-> "ACTIVE", unit |-> to,
                                      ref |-> alloc[a].ref, linked |-> FALSE]]
    /\ unit' = [unit EXCEPT ![from] = Moved(from, "AVAILABLE"),
                            ![to] = Moved(to, "ALLOCATED")]
    /\ req' = [req EXCEPT ![c] = Idle]
    /\ UNCHANGED <<rsv, xfer, booking, now, batch>>

-----------------------------------------------------------------------------
(* With BOOKING_BILLING on, the reference must be a confirmed booking of   *)
(* the unit's branch that does not point at another unit.                  *)
BookingAccepts(k, u) ==
    /\ booking[k].status = "CONFIRMED"
    /\ booking[k].branch = unit[u].branch
    /\ booking[k].selected \in {None, u}

(* Faulty: the hold is checked for being live, not for whose it is. *)
HoldConvertsForAnyone(r, u, k) == ReservedBy(r, u) /\ rsv[r].expires > now

(* A hold converts before its deadline, for the reference it names. *)
HoldConverts(r, u, k) ==
    ReservedBy(r, u) /\ rsv[r].expires > now /\ rsv[r].ref \in {None, k}

Allocate(u, k, a, billing) ==
    /\ Ready(u, {"AVAILABLE", "RESERVED"})
    /\ billing => BookingAccepts(k, u)
    /\ \/ /\ unit[u].status = "AVAILABLE"
          /\ UNCHANGED rsv
       \/ /\ unit[u].status = "RESERVED"
          /\ \E r \in Rsv : /\ HoldConverts(r, u, k)
                            /\ rsv' = [rsv EXCEPT ![r].status = "CONVERTED"]
    /\ alloc[a].status = "NONE"
    /\ ~ \E o \in Alloc : AllocatedBy(o, u) \/ AllocatedFor(o, k)
    /\ alloc' = [alloc EXCEPT ![a] = [status |-> "ACTIVE", unit |-> u, ref |-> k,
                                      linked |-> billing]]
    /\ booking' = IF billing THEN [booking EXCEPT ![k].selected = u] ELSE booking
    /\ unit' = [unit EXCEPT ![u] = Moved(u, "ALLOCATED")]
    /\ UNCHANGED <<xfer, now, req, batch>>

-----------------------------------------------------------------------------
StartTransfer(u, x, b) ==
    /\ Ready(u, MovableStatus)
    /\ b # unit[u].branch
    /\ xfer[x].status = "NONE"
    /\ xfer' = [xfer EXCEPT ![x] = [status |-> "OPEN", unit |-> u,
                                    prior |-> unit[u].status, to |-> b]]
    /\ unit' = [unit EXCEPT ![u] = Moved(u, "IN_TRANSFER")]
    /\ UNCHANGED <<rsv, alloc, booking, now, req, batch>>

(* Faulty: only the unit's status says whether the transfer is over. *)
NeverEnded(x) == TRUE

(* The transfer row never changes; its end is a terminal event, looked for *)
(* under the unit's lock.                                                  *)
NotEnded(x) == xfer[x].status = "OPEN"

EndTransfer(x, outcome) ==
    LET u == xfer[x].unit
        back == Moved(u, xfer[x].prior) IN
    /\ xfer[x].status # "NONE"
    /\ Ready(u, {"IN_TRANSFER"})
    /\ NotEnded(x)
    /\ xfer' = [xfer EXCEPT ![x].status = outcome]
    /\ unit' = [unit EXCEPT ![u] =
                  IF outcome = "COMPLETED" THEN [back EXCEPT !.branch = xfer[x].to] ELSE back]
    /\ UNCHANGED <<rsv, alloc, booking, now, req, batch>>

-----------------------------------------------------------------------------
(* expireReservationsTx first selects the candidates without a lock: ACTIVE, *)
(* due at the captured time, earliest first, at most BatchSize of them.      *)
DueRows(t) == {r \in Rsv : rsv[r].status = "ACTIVE" /\ rsv[r].expires <= t}

EarliestBatch(rows, t) ==
    /\ rows \subseteq DueRows(t)
    /\ IF Cardinality(DueRows(t)) <= BatchSize THEN rows = DueRows(t)
                                               ELSE Cardinality(rows) = BatchSize
    /\ \A r \in rows, q \in DueRows(t) \ rows : rsv[r].expires <= rsv[q].expires

(* A monitor works for every branch, reconcileReservations for the caller's. *)
ScanDue(w, rows, scope) ==
    /\ batch[w] = NoBatch
    /\ rows # {} /\ EarliestBatch(rows, now)
    /\ w \in Monitor => scope = Branch
    /\ batch' = [batch EXCEPT ![w] = [rows |-> rows, at |-> now, scope |-> scope]]
    /\ UNCHANGED <<unit, rsv, alloc, xfer, booking, now, req>>

(* Faulty: the candidate's deadline is not read again, *)
DueWhenSelected(w, r) ==
    rsv[r].status = "ACTIVE" /\ unit[rsv[r].unit].branch \in batch[w].scope

(* or the second look disagrees with the first at the exact deadline. *)
PastDue(w, r) ==
    /\ rsv[r].status = "ACTIVE"
    /\ rsv[r].expires < batch[w].at
    /\ unit[rsv[r].unit].branch \in batch[w].scope

(* Then it locks each candidate's unit and reads the candidate again. *)
StillDue(w, r) ==
    /\ rsv[r].status = "ACTIVE"
    /\ rsv[r].expires <= batch[w].at
    /\ unit[rsv[r].unit].branch \in batch[w].scope

Expiring(w) == {r \in batch[w].rows : StillDue(w, r)}

ExpireBatch(w) ==
    LET freed == {u \in Unit : unit[u].status = "RESERVED"
                                 /\ \E r \in Expiring(w) : rsv[r].unit = u} IN
    /\ batch[w] # NoBatch
    /\ rsv' = [r \in Rsv |-> IF r \in Expiring(w) THEN [rsv[r] EXCEPT !.status = "EXPIRED"]
                                                  ELSE rsv[r]]
    /\ unit' = [u \in Unit |-> IF u \in freed THEN Moved(u, "AVAILABLE") ELSE unit[u]]
    /\ batch' = [batch EXCEPT ![w] = NoBatch]
    /\ UNCHANGED <<alloc, xfer, booking, now, req>>

(* A deadlock victim, a lost connection or a crashed process rolls back. *)
AbortBatch(w) ==
    /\ batch[w] # NoBatch
    /\ batch' = [batch EXCEPT ![w] = NoBatch]
    /\ UNCHANGED <<unit, rsv, alloc, xfer, booking, now, req>>

Tick ==
    /\ now < MaxTime
    /\ now' = now + 1
    /\ UNCHANGED <<unit, rsv, alloc, xfer, booking, req, batch>>

-----------------------------------------------------------------------------
(* Faulty: the booking keeps the allocation's id where the unit's belongs. *)
OpenBookingSelectingRow(k, b) ==
    /\ booking[k].status = "NONE"
    /\ \E a \in Alloc :
         /\ AllocatedFor(a, k)
         /\ booking' = [booking EXCEPT ![k] = [status |-> "OPENING", branch |-> b,
                                               selected |-> a, found |-> a]]
    /\ UNCHANGED <<unit, rsv, alloc, xfer, now, req, batch>>

(* commercial.createBooking inserts the booking, which nobody sees yet, and *)
(* reads the ACTIVE allocation that already carries its reference.          *)
OpenBooking(k, b) ==
    /\ booking[k].status = "NONE"
    /\ \/ \E a \in Alloc :
            /\ AllocatedFor(a, k)
            /\ booking' = [booking EXCEPT ![k] = [status |-> "OPENING", branch |-> b,
                                                  selected |-> alloc[a].unit, found |-> a]]
       \/ /\ ~ \E a \in Alloc : AllocatedFor(a, k)
          /\ booking' = [booking EXCEPT ![k] = [status |-> "OPENING", branch |-> b,
                                                selected |-> None, found |-> None]]
    /\ UNCHANGED <<unit, rsv, alloc, xfer, now, req, batch>>

(* Then it writes its id into that allocation, by id and without the unit's *)
(* lock or version, whatever has become of the row, and commits.            *)
CreateBooking(k) ==
    /\ booking[k].status = "OPENING"
    /\ alloc' = [a \in Alloc |-> IF a = booking[k].found THEN [alloc[a] EXCEPT !.linked = TRUE]
                                                         ELSE alloc[a]]
    /\ booking' = [booking EXCEPT ![k] = [status |-> "CONFIRMED", found |-> None,
                                          branch |-> booking[k].branch,
                                          selected |-> booking[k].selected]]
    /\ UNCHANGED <<unit, rsv, xfer, now, req, batch>>

RollBackBooking(k) ==
    /\ booking[k].status = "OPENING"
    /\ booking' = [booking EXCEPT ![k] = NoBooking]
    /\ UNCHANGED <<unit, rsv, alloc, xfer, now, req, batch>>

(* commercial.cancelBooking leaves the allocation and the unit alone. *)
CancelBooking(k) ==
    /\ booking[k].status = "CONFIRMED"
    /\ booking' = [booking EXCEPT ![k].status = "CANCELLED"]
    /\ UNCHANGED <<unit, rsv, alloc, xfer, now, req, batch>>

-----------------------------------------------------------------------------
UnitNext ==
    \E u \in Unit :
        \/ \E b \in Branch, s \in UnitStatus : CreateUnit(u, b, s)
        \/ Transition(u)
        \/ \E a \in Alloc : Deliver(u, a)
        \/ \E r \in Rsv, ref \in Booking \cup {None}, e \in 0..MaxTime : Reserve(u, r, ref, e)
        \/ \E k \in Booking, a \in Alloc, billing \in BookingBilling : Allocate(u, k, a, billing)
        \/ \E x \in Xfer, b \in Branch : StartTransfer(u, x, b)

ClientNext ==
    \E c \in Client :
        \/ \E r \in Rsv : ReadReservation(c, r)
        \/ \E a \in Alloc : ReadAllocation(c, a)
        \/ \E r \in Rsv, e \in 0..MaxTime : ExtendReservation(c, r, e)
        \/ \E r \in Rsv : ReleaseReservation(c, r)
        \/ \E a \in Alloc : ReleaseAllocation(c, a)
        \/ \E a, n \in Alloc, to \in Unit : Reallocate(c, a, to, n)
        \/ Abandon(c)

TransferNext == \E x \in Xfer : EndTransfer(x, "COMPLETED") \/ EndTransfer(x, "CANCELLED")

ExpiryNext ==
    \E w \in Worker :
        \/ \E rows \in SUBSET Rsv, scope \in SUBSET Branch : ScanDue(w, rows, scope)
        \/ ExpireBatch(w)
        \/ AbortBatch(w)

BookingNext ==
    \E k \in Booking :
        \/ \E b \in Branch : OpenBooking(k, b)
        \/ CreateBooking(k) \/ RollBackBooking(k) \/ CancelBooking(k)

Next == UnitNext \/ ClientNext \/ TransferNext \/ ExpiryNext \/ BookingNext \/ Tick

Spec == Init /\ [][Next]_vars

(* Every API process arms the 60-second timer when it starts, so a scan that *)
(* stays possible is made; a transaction may abort, but not for ever.        *)
MonitorFairness ==
    \A w \in Monitor :
        /\ WF_vars(\E rows \in SUBSET Rsv : ScanDue(w, rows, Branch))
        /\ SF_vars(ExpireBatch(w))

FairSpec == Spec /\ MonitorFairness

-----------------------------------------------------------------------------
(* Properties.                                                             *)

(* The unit row and the rows that explain its status agree: a unit is       *)
(* RESERVED, ALLOCATED or IN_TRANSFER exactly when one live reservation,    *)
(* allocation or open transfer names it, one unit carries at most one of    *)
(* each, and a booking reference holds at most one unit.  The services      *)
(* write the two tables separately, and the pre-lock readers write by id.   *)
ReservedExplained ==
    \A u \in Unit : unit[u].status = "RESERVED" <=> \E r \in Rsv : ReservedBy(r, u)
AllocatedExplained ==
    \A u \in Unit : unit[u].status = "ALLOCATED" <=> \E a \in Alloc : AllocatedBy(a, u)
TransferExplained ==
    \A u \in Unit : unit[u].status = "IN_TRANSFER" <=> \E x \in Xfer : OpenTransferOf(x, u)
OneHoldPerUnit ==
    /\ \A u \in Unit, r, q \in Rsv : ReservedBy(r, u) /\ ReservedBy(q, u) => r = q
    /\ \A u \in Unit, a, o \in Alloc : AllocatedBy(a, u) /\ AllocatedBy(o, u) => a = o
    /\ \A u \in Unit, x, y \in Xfer : OpenTransferOf(x, u) /\ OpenTransferOf(y, u) => x = y
OneUnitPerBooking ==
    \A k \in Booking, a, o \in Alloc : AllocatedFor(a, k) /\ AllocatedFor(o, k) => a = o

StockConsistent ==
    /\ ReservedExplained /\ AllocatedExplained /\ TransferExplained
    /\ OneHoldPerUnit /\ OneUnitPerBooking

(* What makes the pre-lock reads safe: as long as the unit's version is the *)
(* one the caller saw, the row it read is still ACTIVE and still carries    *)
(* the deadline it read.  Every writer of a reservation or an allocation    *)
(* status has to move the unit's version for this to hold.                  *)
StaleReadsRejected ==
    \A c \in Client :
        /\ \A r \in Rsv : req[c].row = r /\ VersionUnchanged(c, rsv[r].unit)
             => rsv[r].status = "ACTIVE" /\ rsv[r].expires = req[c].expires
        /\ \A a \in Alloc : req[c].row = a /\ VersionUnchanged(c, alloc[a].unit)
             => alloc[a].status = "ACTIVE"

(* A live allocation that carries a bookingId is the one its booking points *)
(* at, although allocate() and createBooking() establish the link from the  *)
(* two ends without a common lock.                                          *)
LinkedAllocationSelected ==
    \A a \in Alloc : alloc[a].status = "ACTIVE" /\ alloc[a].linked =>
        /\ booking[alloc[a].ref].status \in {"CONFIRMED", "CANCELLED"}
        /\ booking[alloc[a].ref].selected = alloc[a].unit

(* The unit, its open rows and the booking that selected it tell one story.  *)
StockAgrees == StockConsistent /\ LinkedAllocationSelected

(* While BOOKING_BILLING stays on, a linked allocation's unit stands in the *)
(* branch of its booking: transfers cannot move it away afterwards.         *)
LinkedAllocationInBranch ==
    BookingBilling = {TRUE} =>
        \A a \in Alloc : alloc[a].status = "ACTIVE" /\ alloc[a].linked =>
            unit[alloc[a].unit].branch = booking[alloc[a].ref].branch

(* A row that ended keeps its outcome: a late release, extension, expiry or *)
(* second end of a transfer does not rewrite what was committed first, and  *)
(* of an ended allocation only the link to a booking is ever written.       *)
EndedRowsKept ==
    /\ \A r \in Rsv : rsv[r].status \notin {"NONE", "ACTIVE"} => rsv'[r] = rsv[r]
    /\ \A a \in Alloc : alloc[a].status \notin {"NONE", "ACTIVE"} =>
          /\ alloc'[a].status = alloc[a].status
          /\ alloc'[a].unit = alloc[a].unit /\ alloc'[a].ref = alloc[a].ref
    /\ \A x \in Xfer : xfer[x].status \notin {"NONE", "OPEN"} => xfer'[x] = xfer[x]
TerminalRowsFinal == [][EndedRowsKept]_vars

(* A monitor that selected a reservation before its holder extended it does *)
(* not expire it: what expires is past the deadline it has at that moment.  *)
ExpiresOverdueOnly ==
    \A r \in Rsv : rsv[r].status = "ACTIVE" /\ rsv'[r].status = "EXPIRED"
        => rsv[r].expires <= now
ExpiryRespectsExtension == [][ExpiresOverdueOnly]_vars

(* Stock held by an unexpired reservation for one booking is not handed to  *)
(* another: a unit that leaves RESERVED for ALLOCATED goes to the reference *)
(* its live hold named, if it named one.                                    *)
HoldHonoured ==
    \A u \in Unit, r \in Rsv, a \in Alloc :
        ReservedBy(r, u) /\ rsv[r].ref # None /\ ~AllocatedBy(a, u) /\ AllocatedBy(a, u)'
            => alloc'[a].ref = rsv[r].ref /\ rsv[r].expires > now
HeldUnitGoesToHolder == [][HoldHonoured]_vars

(* A reservation past its deadline is released, extended, converted or      *)
(* expired in the end: monitors abort and lose their batch, but one of them *)
(* finishes.                                                                *)
ExpiredEventuallyReleased ==
    \A r \in Rsv :
        (rsv[r].status = "ACTIVE" /\ rsv[r].expires <= now)
            ~> ~(rsv[r].status = "ACTIVE" /\ rsv[r].expires <= now)

(* A unit designated as a demo vehicle becomes saleable stock only through  *)
(* AUTHORIZE_DEMO_SALE.                                                     *)
DemoSaleAuthorized ==
    \A u \in Unit : unit[u].demo =>
        unit[u].status \notin {"AVAILABLE", "RESERVED", "ALLOCATED", "DELIVERED"}
=============================================================================
