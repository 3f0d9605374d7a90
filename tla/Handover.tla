----------------------------- MODULE Handover ------------------------------
(***************************************************************************)
(* Delivery of the sold vehicle: apps/api/src/delivery/delivery.service.ts *)
(* over the stock and the bookings of module Inventory.                    *)
(*                                                                         *)
(* Every command but the sweep of expired tracking takes SELECT ... FOR    *)
(* UPDATE on the delivery job.  That lock protects nothing else: start()   *)
(* evaluates readiness in an earlier transaction and looks for the         *)
(* executive's other jobs without locking them, complete() reads and       *)
(* writes the allocation and the unit without the unit's lock, and a proof *)
(* is read before the job is locked.  Those commands take several steps    *)
(* here, kept in tx, while the others take one.                            *)
(*                                                                         *)
(* A booking has one job at most (delivery_jobs_booking_uidx), so a job is *)
(* named by its booking.  The required part of the checklist and the one   *)
(* photo a tenant may require are a value each; RECEIVED_BY proof comes    *)
(* with the completion itself.                                             *)
(***************************************************************************)
EXTENDS Integers, FiniteSets

CONSTANTS
    Unit, Branch, Booking, Rsv, Alloc, Xfer, Client, Worker, Monitor, None,
    BookingBilling, BatchSize, MaxVersion, MaxTime,     \* as in Inventory
    Executive,        \* memberships that deliver
    Caller,           \* API requests that are open over several steps
    Sweeper,          \* requests that sweep expired tracking
    PhotoRequired,    \* settings.requiredProofTypes includes PHOTO
    MaxJobVersion     \* bound: commands stop when a job reaches this version

ASSUME HandoverAssumption ==
    /\ None \notin Executive \cup Booking
    /\ PhotoRequired \in BOOLEAN
    /\ MaxJobVersion \in Nat

VARIABLES
    unit, rsv, alloc, xfer, booking, now, req, batch,   \* as in Inventory
    job,       \* delivery_jobs, by booking
    photo,     \* the job's photo proof
    session,   \* whether an open delivery_location_sessions row names the job
    tx,        \* open requests that have read something
    sweep      \* per sweep: the version it read of each job it selected, or 0

Stock == INSTANCE Inventory

stock == <<unit, rsv, alloc, xfer, booking, now, req, batch>>
vars == <<stock, job, photo, session, tx, sweep>>

-----------------------------------------------------------------------------
JobStatus == {"NONE", "VEHICLE_ALLOCATED", "VEHICLE_PREPARATION", "READY_FOR_DELIVERY",
              "DELIVERY_SCHEDULED", "OUT_FOR_DELIVERY", "DELIVERED", "DELAYED", "FAILED",
              "RESCHEDULED", "CANCELLED"}
Photo == [status : {"NONE", "PENDING_UPLOAD", "PENDING_SCAN", "VERIFIED", "REJECTED"},
          clean : BOOLEAN]

JobRow == [status : JobStatus, version : Nat, unit : Unit \cup {None},
           executive : Executive \cup {None}, checked : BOOLEAN, tracking : BOOLEAN,
           overdue : BOOLEAN]
Request == [op : {"NONE", "READY", "START", "COMPLETE", "REVIEW"},
            job : Booking \cup {None}, by : Executive \cup {None},
            alloc : Alloc \cup {None}, seen : Nat]

NoJob == [status |-> "NONE", version |-> 0, unit |-> None, executive |-> None,
          checked |-> FALSE, tracking |-> FALSE, overdue |-> FALSE]
NoPhoto == [status |-> "NONE", clean |-> FALSE]
NoSweep == [k \in Booking |-> 0]

Opened(o, k, e, a, n) == [op |-> o, job |-> k, by |-> e, alloc |-> a, seen |-> n]
NoTx == Opened("NONE", None, None, None, 0)

TypeOK ==
    /\ job \in [Booking -> JobRow]
    /\ photo \in [Booking -> Photo]
    /\ session \in [Booking -> BOOLEAN]
    /\ tx \in [Caller -> Request]
    /\ sweep \in [Sweeper -> [Booking -> Nat]]

Init ==
    /\ Stock!Init
    /\ job = [k \in Booking |-> NoJob]
    /\ photo = [k \in Booking |-> NoPhoto]
    /\ session = [k \in Booking |-> FALSE]
    /\ tx = [c \in Caller |-> NoTx]
    /\ sweep = [w \in Sweeper |-> NoSweep]

-----------------------------------------------------------------------------
(* START and COMPLETE hold the job's row lock until they commit. *)
Locked(k) == \E c \in Caller : tx[c].op \in {"START", "COMPLETE"} /\ tx[c].job = k

(* lockAndGet, assertVersion and assertStatus of a command on a free job. *)
Ready(k, statuses) ==
    ~Locked(k) /\ job[k].status \in statuses /\ job[k].version < MaxJobVersion

(* updateJob; a status other than OUT_FOR_DELIVERY ends the tracking. *)
Updated(k, s) == [job[k] EXCEPT !.status = s, !.version = job[k].version + 1]
OffRoad(k, s) == [Updated(k, s) EXCEPT !.tracking = FALSE, !.overdue = FALSE]

(* Faulty: asked of the row that has been updated already. *)
StoppedLate(k) == session

(* stopTrackingTx *)
Stopped(k) == IF job[k].tracking THEN [session EXCEPT ![k] = FALSE] ELSE session

rest == <<stock, photo, tx, sweep>>

(* The ACTIVE allocation that carries the booking's id, of unit u. *)
LinkedTo(a, k, u) == Stock!AllocatedBy(a, u) /\ alloc[a].ref = k /\ alloc[a].linked

CreateJob(k, e) ==
    LET u == booking[k].selected IN
    /\ job[k].status = "NONE"
    /\ booking[k].status = "CONFIRMED" /\ u \in Unit
    /\ \E a \in Alloc : LinkedTo(a, k, u)
    /\ job' = [job EXCEPT ![k] = [NoJob EXCEPT !.status = "VEHICLE_ALLOCATED", !.version = 1,
                                               !.unit = u, !.executive = e]]
    /\ UNCHANGED <<rest, session>>

Assign(k, e) ==
    /\ Ready(k, {"VEHICLE_ALLOCATED", "VEHICLE_PREPARATION", "READY_FOR_DELIVERY",
                 "DELIVERY_SCHEDULED", "DELAYED", "FAILED"})
    /\ job' = [job EXCEPT ![k] = [Updated(k, job[k].status) EXCEPT !.executive = e]]
    /\ UNCHANGED <<rest, session>>

Checklist(k, complete) ==
    /\ Ready(k, {"VEHICLE_ALLOCATED", "VEHICLE_PREPARATION"})
    /\ job' = [job EXCEPT ![k] = [Updated(k, "VEHICLE_PREPARATION") EXCEPT !.checked = complete]]
    /\ UNCHANGED <<rest, session>>

MarkReady(k) ==
    /\ Ready(k, {"VEHICLE_ALLOCATED", "VEHICLE_PREPARATION"})
    /\ job[k].checked
    /\ job' = [job EXCEPT ![k] = Updated(k, "READY_FOR_DELIVERY")]
    /\ UNCHANGED <<rest, session>>

Schedule(k) ==
    /\ Ready(k, {"READY_FOR_DELIVERY"})
    /\ job[k].executive # None
    /\ job' = [job EXCEPT ![k] = Updated(k, "DELIVERY_SCHEDULED")]
    /\ UNCHANGED <<rest, session>>

-----------------------------------------------------------------------------
(* What evaluateReadiness asks of stock and booking; payments, documents    *)
(* and the other items can only refuse.                                     *)
ReadinessOf(k) ==
    booking[k].status = "CONFIRMED" /\ \E a \in Alloc : Stock!AllocatedFor(a, k)

(* start(), first transaction: the evaluation, by the assigned executive. *)
EvaluateReadiness(c, k) ==
    /\ tx[c] = NoTx
    /\ job[k].status # "NONE" /\ job[k].executive # None
    /\ ReadinessOf(k)
    /\ tx' = [tx EXCEPT ![c] = Opened("READY", k, job[k].executive, None, 0)]
    /\ UNCHANGED <<stock, job, photo, session, sweep>>

(* start(), second transaction: the job is locked and found fit, and no     *)
(* other job of the executive is seen on the road.                          *)
BeginStart(c) ==
    LET k == tx[c].job IN
    /\ tx[c].op = "READY"
    /\ Ready(k, {"DELIVERY_SCHEDULED"})
    /\ job[k].executive = tx[c].by
    /\ job[k].checked
    /\ ~ \E o \in Booking \ {k} : job[o].executive = tx[c].by /\ job[o].status = "OUT_FOR_DELIVERY"
    /\ tx' = [tx EXCEPT ![c].op = "START"]
    /\ UNCHANGED <<stock, job, photo, session, sweep>>

CommitStart(c) ==
    LET k == tx[c].job IN
    /\ tx[c].op = "START"
    /\ ~session[k]
    /\ session' = [session EXCEPT ![k] = TRUE]
    /\ job' = [job EXCEPT ![k] = [Updated(k, "OUT_FOR_DELIVERY") EXCEPT !.tracking = TRUE]]
    /\ tx' = [tx EXCEPT ![c] = NoTx]
    /\ UNCHANGED <<stock, photo, sweep>>

(* A rejection, a lost connection or a crash rolls back. *)
Rollback(c) ==
    /\ tx[c] # NoTx
    /\ tx' = [tx EXCEPT ![c] = NoTx]
    /\ UNCHANGED <<stock, job, photo, session, sweep>>

-----------------------------------------------------------------------------
(* receivedBy and verifyOtp leave the job on the road with a new version. *)
RecordProof(k) ==
    /\ Ready(k, {"OUT_FOR_DELIVERY"})
    /\ job' = [job EXCEPT ![k] = Updated(k, "OUT_FOR_DELIVERY")]
    /\ UNCHANGED <<rest, session>>

InitiateUpload(k) ==
    /\ Ready(k, {"DELIVERY_SCHEDULED", "OUT_FOR_DELIVERY"})
    /\ photo[k] = NoPhoto
    /\ photo' = [photo EXCEPT ![k].status = "PENDING_UPLOAD"]
    /\ UNCHANGED <<stock, job, session, tx, sweep>>

(* completeProofUpload asks for no status of the job: it may be over.       *)
CompleteUpload(k, clean) ==
    /\ Ready(k, JobStatus \ {"NONE"})
    /\ photo[k].status = "PENDING_UPLOAD"
    /\ photo' = [photo EXCEPT ![k] = [status |-> IF clean THEN "PENDING_SCAN" ELSE "REJECTED",
                                     clean |-> clean]]
    /\ job' = [job EXCEPT ![k] = Updated(k, job[k].status)]
    /\ UNCHANGED <<stock, session, tx, sweep>>

(* reviewProof reads the proof, and then locks the job and writes. *)
BeginReview(c, k) ==
    /\ tx[c] = NoTx
    /\ photo[k].status \in {"PENDING_SCAN", "REJECTED"}
    /\ tx' = [tx EXCEPT ![c] = Opened("REVIEW", k, None, None, 0)]
    /\ UNCHANGED <<stock, job, photo, session, sweep>>

CommitReview(c, decision) ==
    LET k == tx[c].job IN
    /\ tx[c].op = "REVIEW" /\ ~Locked(k)
    /\ decision = "VERIFIED" => photo[k].clean
    /\ photo' = [photo EXCEPT ![k].status = decision]
    /\ tx' = [tx EXCEPT ![c] = NoTx]
    /\ UNCHANGED <<stock, job, session, sweep>>

-----------------------------------------------------------------------------
(* complete(): the job is locked and found fit, and the allocation and the  *)
(* unit are read.                                                           *)
BeginComplete(c, k, a) ==
    LET u == job[k].unit IN
    /\ tx[c] = NoTx
    /\ Ready(k, {"OUT_FOR_DELIVERY"})
    /\ job[k].checked
    /\ PhotoRequired => photo[k].status = "VERIFIED"
    /\ LinkedTo(a, k, u)
    /\ unit[u].status = "ALLOCATED"
    /\ tx' = [tx EXCEPT ![c] = Opened("COMPLETE", k, job[k].executive, a,
                                       unit[u].version)]
    /\ UNCHANGED <<stock, job, photo, session, sweep>>

(* Faulty: the stock is left to the inventory's own DELIVER. *)
CommitCompleteAlone(c) ==
    LET k == tx[c].job IN
    /\ tx[c].op = "COMPLETE"
    /\ job' = [job EXCEPT ![k] = OffRoad(k, "DELIVERED")]
    /\ session' = Stopped(k)
    /\ tx' = [tx EXCEPT ![c] = NoTx]
    /\ UNCHANGED <<stock, photo, sweep>>

(* The allocation and the unit are written by id, as they were read. *)
CommitComplete(c) ==
    LET k == tx[c].job
        u == job[k].unit IN
    /\ tx[c].op = "COMPLETE"
    /\ alloc' = [alloc EXCEPT ![tx[c].alloc].status = "DELIVERED"]
    /\ unit' = [unit EXCEPT ![u].status = "DELIVERED", ![u].version = tx[c].seen + 1]
    /\ job' = [job EXCEPT ![k] = OffRoad(k, "DELIVERED")]
    /\ session' = Stopped(k)
    /\ tx' = [tx EXCEPT ![c] = NoTx]
    /\ UNCHANGED <<rsv, xfer, booking, now, req, batch, photo, sweep>>

-----------------------------------------------------------------------------
(* delay() and fail() *)
Exception(k, target) ==
    /\ Ready(k, {"DELIVERY_SCHEDULED", "OUT_FOR_DELIVERY"})
    /\ job' = [job EXCEPT ![k] = OffRoad(k, target)]
    /\ session' = Stopped(k)
    /\ UNCHANGED rest

CancelJob(k) ==
    /\ Ready(k, {"VEHICLE_ALLOCATED", "VEHICLE_PREPARATION", "READY_FOR_DELIVERY",
                 "DELIVERY_SCHEDULED", "DELAYED", "FAILED", "RESCHEDULED"})
    /\ job' = [job EXCEPT ![k] = OffRoad(k, "CANCELLED")]
    /\ session' = Stopped(k)
    /\ UNCHANGED rest

RequestReschedule(k) ==
    /\ Ready(k, {"DELIVERY_SCHEDULED", "DELAYED", "FAILED"})
    /\ job' = [job EXCEPT ![k] = OffRoad(k, "RESCHEDULED")]
    /\ session' = Stopped(k)
    /\ UNCHANGED rest

DecideReschedule(k, target) ==
    /\ Ready(k, {"RESCHEDULED"})
    /\ target \in {"DELIVERY_SCHEDULED", "FAILED"}
    /\ job' = [job EXCEPT ![k] = Updated(k, target)]
    /\ UNCHANGED <<rest, session>>

-----------------------------------------------------------------------------
(* trackingExpiresAt passes. *)
Expire(k) ==
    /\ job[k].tracking /\ ~job[k].overdue
    /\ job' = [job EXCEPT ![k].overdue = TRUE]
    /\ UNCHANGED <<rest, session>>

(* expireTracking, at the head of list() and of reconcile(): selects jobs   *)
(* without a lock,                                                          *)
ScanTracking(w) ==
    LET due == {k \in Booking : job[k].tracking /\ job[k].overdue} IN
    /\ sweep[w] = NoSweep /\ due # {}
    /\ sweep' = [sweep EXCEPT ![w] = [k \in Booking |-> IF k \in due THEN job[k].version ELSE 0]]
    /\ UNCHANGED <<stock, job, photo, session, tx>>

(* and then updates each in a transaction of its own.  updateJob compares   *)
(* the version it read; *)
ExpireTracking(w, k) ==
    /\ sweep[w][k] # 0
    /\ ~Locked(k) /\ job[k].version = sweep[w][k]
    /\ session' = [session EXCEPT ![k] = FALSE]
    /\ job' = [job EXCEPT ![k] = OffRoad(k, "DELAYED")]
    /\ sweep' = [sweep EXCEPT ![w][k] = 0]
    /\ UNCHANGED <<stock, photo, tx>>

(* a job that has changed ends the sweep with an error, as a crash does. *)
AbortSweep(w) ==
    /\ sweep[w] # NoSweep
    /\ sweep' = [sweep EXCEPT ![w] = NoSweep]
    /\ UNCHANGED <<stock, job, photo, session, tx>>

-----------------------------------------------------------------------------
PrepareNext ==
    \E k \in Booking :
        \/ \E e \in Executive \cup {None} : CreateJob(k, e)
        \/ \E e \in Executive : Assign(k, e)
        \/ \E complete \in BOOLEAN : Checklist(k, complete)
        \/ MarkReady(k) \/ Schedule(k)

RequestNext ==
    \E c \in Caller :
        \/ \E k \in Booking : EvaluateReadiness(c, k) \/ BeginReview(c, k)
        \/ \E k \in Booking, a \in Alloc : BeginComplete(c, k, a)
        \/ \E decision \in {"VERIFIED", "REJECTED"} : CommitReview(c, decision)
        \/ BeginStart(c) \/ CommitStart(c) \/ CommitComplete(c) \/ Rollback(c)

RoadNext ==
    \E k \in Booking :
        \/ RecordProof(k) \/ InitiateUpload(k) \/ Expire(k)
        \/ \E clean \in BOOLEAN : CompleteUpload(k, clean)
        \/ Exception(k, "DELAYED") \/ Exception(k, "FAILED")
        \/ CancelJob(k) \/ RequestReschedule(k)
        \/ DecideReschedule(k, "DELIVERY_SCHEDULED") \/ DecideReschedule(k, "FAILED")

SweepNext ==
    \E w \in Sweeper :
        \/ ScanTracking(w) \/ AbortSweep(w)
        \/ \E k \in Booking : ExpireTracking(w, k)

StockNext == Stock!Next /\ UNCHANGED <<job, photo, session, tx, sweep>>

Next == PrepareNext \/ RequestNext \/ RoadNext \/ SweepNext \/ StockNext

Spec == Init /\ [][Next]_vars

-----------------------------------------------------------------------------
(* Properties.                                                             *)

(* Location is collected exactly while the job is on the road: the status,  *)
(* the flag on the job and the open session agree, although completion,     *)
(* exceptions and the sweep of a stale list all end them.                   *)
TrackedOnTheRoad ==
    \A k \in Booking :
        /\ job[k].status = "OUT_FOR_DELIVERY" <=> job[k].tracking
        /\ session[k] <=> job[k].tracking

(* What a completed job delivered stays delivered, whatever the inventory   *)
(* commands, which may hold a stale read, do later.                         *)
DeliveredStaysDelivered ==
    \A k \in Booking : job[k].status = "DELIVERED" =>
        /\ unit[job[k].unit].status = "DELIVERED"
        /\ \E a \in Alloc : alloc[a].unit = job[k].unit /\ alloc[a].ref = k
                              /\ alloc[a].status = "DELIVERED"

(* A finished delivery is not reopened: no sweep of a list that was read    *)
(* before, no late command.                                                 *)
EndedJobsAreFinal ==
    [][\A k \in Booking : job[k].status \in {"DELIVERED", "CANCELLED"}
          => job'[k].status = job[k].status]_vars

(* PROMPTS/07_INVENTORY.md: "One physical unit cannot serve two active      *)
(* bookings": the unit one booking was given is not allocated to another.   *)
UnitServesOneBooking ==
    \A a, o \in Alloc :
        alloc[a].status = "DELIVERED" /\ alloc[o].status = "ACTIVE" => alloc[a].unit # alloc[o].unit
=============================================================================
